---------------------------- MODULE Spec2Model ----------------------------
(***************************************************************************)
(* Workbook import of tools/db/import_stock_workbook.py: the scalar        *)
(* normalizers, the usage-sheet batch reconstruction (parse_usage_sheet)   *)
(* and the assembler loop of main().                                       *)
(*                                                                         *)
(* Values.  An optional value is a tuple: None is <<>> and Some(x) is      *)
(* <<x>>.  A text is a sequence of one-character strings.  A float is an   *)
(* integer number of thousandths.  A date is <<year, month, day>>.  A raw  *)
(* cell is [k |-> kind, v |-> payload], kind one of "none", "str", "int",  *)
(* "num" (a float), "bool", "date".                                        *)
(***************************************************************************)
EXTENDS Integers, Sequences, FiniteSets, TLC

None == <<>>
Some(x) == <<x>>
IsNone(o) == o = <<>>
NotNone(o) == o # <<>>

EmptyCell == [k |-> "none", v |-> 0]
StrCell(t) == [k |-> "str", v |-> t]
IntCell(n) == [k |-> "int", v |-> n]
NumCell(n) == [k |-> "num", v |-> n]
DateCell(d) == [k |-> "date", v |-> d]

\* One float unit: floats are counted in thousandths.
FloatScale == 1000

(***************************************************************************)
(* Bounds of the explored inputs.                                          *)
(***************************************************************************)
\* Simple rows read over a workbook of one sheet in a run of simple rows.
MaxRows == 4
\* Usage sheets present in the workbook in a run of simple rows.
MaxSheets == 2
\* Simple rows read besides the one free row in a run with a free row.
MaxSimpleRows == 1
\* Rows of the inventory sheet.
MaxInventoryRows == 2
\* Cells that are not empty in a row of the inventory sheet that is not full.
MaxFilled == 1
\* Batches given to build_import_sql.
MaxBatches == 2
\* Lines given to build_import_sql.
MaxLines == 2
\* Imports run against the store.
MaxRuns == 2
\* Characters of a text given to a scalar normalizer.
MaxTextLen == 3
\* Parts of a weight/quantity text given to parse_weight_and_pcs.
MaxParts == 4

(***************************************************************************)
(* Text helpers (Python str methods used by the normalizers).              *)
(***************************************************************************)
DigitChars == <<"0", "1", "2", "3", "4", "5", "6", "7", "8", "9">>
IsDigit(c) == \E i \in 1..10 : DigitChars[i] = c
DigitVal(c) == (CHOOSE i \in 1..10 : DigitChars[i] = c) - 1
IsSpace(c) == c = " "

RECURSIVE lstrip(_)
lstrip(t) == IF t # <<>> /\ IsSpace(Head(t)) THEN lstrip(Tail(t)) ELSE t

RECURSIVE rstrip(_)
rstrip(t) ==
    IF t # <<>> /\ IsSpace(t[Len(t)]) THEN rstrip(SubSeq(t, 1, Len(t) - 1)) ELSE t

\* str.strip()
strip(t) == rstrip(lstrip(t))

\* str(n) for a non-negative integer n
RECURSIVE NatText(_)
NatText(n) ==
    IF n < 10 THEN <<DigitChars[n + 1]>>
    ELSE NatText(n \div 10) \o <<DigitChars[(n % 10) + 1]>>

\* the digits of n, zero-padded on the left to w characters
RECURSIVE Pad(_, _)
Pad(t, w) == IF Len(t) >= w THEN t ELSE Pad(<<"0">> \o t, w)

\* date.isoformat()
isoformat(d) ==
    Pad(NatText(d[1]), 4) \o <<"-">> \o Pad(NatText(d[2]), 2) \o <<"-">>
        \o Pad(NatText(d[3]), 2)

\* str(value) of a float: the integer part, ".", and the decimals
FloatText(n) ==
    LET a == IF n < 0 THEN 0 - n ELSE n
        frac == a % FloatScale
        fracText ==
            IF frac = 0 THEN <<"0">>
            ELSE IF frac % 100 = 0 THEN NatText(frac \div 100)
            ELSE IF frac % 10 = 0 THEN Pad(NatText(frac \div 10), 2)
            ELSE Pad(NatText(frac), 3)
    IN  (IF n < 0 THEN <<"-">> ELSE <<>>) \o NatText(a \div FloatScale)
            \o <<".">> \o fracText

\* str(value) of a cell value that is not None
str(cell) ==
    CASE cell.k = "str" -> cell.v
      [] cell.k = "int" -> IF cell.v < 0 THEN <<"-">> \o NatText(0 - cell.v)
                           ELSE NatText(cell.v)
      [] cell.k = "num" -> FloatText(cell.v)
      [] cell.k = "bool" -> IF cell.v THEN <<"T", "r", "u", "e">>
                            ELSE <<"F", "a", "l", "s", "e">>
      [] cell.k = "date" -> isoformat(cell.v)

\* the value of a run of digits
RECURSIVE DigitsValue(_)
DigitsValue(t) ==
    IF t = <<>> THEN 0
    ELSE 10 * DigitsValue(SubSeq(t, 1, Len(t) - 1)) + DigitVal(t[Len(t)])

\* the end of the run of digits that starts at position i (i - 1 when none)
RECURSIVE DigitRunEnd(_, _)
DigitRunEnd(t, i) ==
    IF i <= Len(t) /\ IsDigit(t[i]) THEN DigitRunEnd(t, i + 1) ELSE i - 1

AllDigits(t) == t # <<>> /\ \A i \in 1..Len(t) : IsDigit(t[i])

(***************************************************************************)
(* normalize_text                                                          *)
(***************************************************************************)
\* mutant: the double dash is taken for a placeholder too
normalize_text_DoubleDash(cell) ==
    IF cell.k = "none" THEN None
    ELSE LET text == strip(str(cell))
         IN  IF text = <<>> \/ text = <<"-">> \/ text = <<"-", "-">> THEN None
             ELSE Some(text)

normalize_text(cell) ==
    IF cell.k = "none" THEN None
    ELSE LET text == strip(str(cell))
         IN  IF text = <<>> \/ text = <<"-">> THEN None ELSE Some(text)

(***************************************************************************)
(* parse_float and NUMBER_PATTERN                                          *)
(***************************************************************************)
\* str.replace("..", "."), left to right, non-overlapping
RECURSIVE CollapseDots(_)
CollapseDots(t) ==
    IF Len(t) < 2 THEN t
    ELSE IF t[1] = "." /\ t[2] = "." THEN <<".">> \o CollapseDots(SubSeq(t, 3, Len(t)))
    ELSE <<t[1]>> \o CollapseDots(Tail(t))

\* the end of the greedy run of (?:,\d{3})* that starts after position e
RECURSIVE GroupRunEnd(_, _)
GroupRunEnd(t, e) ==
    IF e + 4 <= Len(t) /\ t[e + 1] = "," /\ IsDigit(t[e + 2]) /\ IsDigit(t[e + 3])
          /\ IsDigit(t[e + 4])
    THEN GroupRunEnd(t, e + 4)
    ELSE e

\* NUMBER_PATTERN.match at position i: the end of the match, 0 when none
NumberMatchEnd(t, i) ==
    LET d == IF t[i] = "-" THEN i + 1 ELSE i
        e1 == DigitRunEnd(t, d)
        e2 == GroupRunEnd(t, e1)
        e3 == IF e2 + 2 <= Len(t) /\ t[e2 + 1] = "." /\ IsDigit(t[e2 + 2])
              THEN DigitRunEnd(t, e2 + 2) ELSE e2
    IN  IF e1 < d THEN 0 ELSE e3

\* NUMBER_PATTERN.search: <<start, end>> of the leftmost match, <<>> when none
RECURSIVE NumberSearchFrom(_, _)
NumberSearchFrom(t, i) ==
    IF i > Len(t) THEN <<>>
    ELSE IF NumberMatchEnd(t, i) # 0 THEN <<i, NumberMatchEnd(t, i)>>
    ELSE NumberSearchFrom(t, i + 1)

NUMBER_PATTERN_search(t) == NumberSearchFrom(t, 1)

RemoveCommas(t) == SelectSeq(t, LAMBDA c : c # ",")

\* float(text) of a matched number, in thousandths (further decimals are cut)
FloatOfMatch(m) ==
    LET neg == m[1] = "-"
        body == IF neg THEN Tail(m) ELSE m
        dot == IF \E i \in 1..Len(body) : body[i] = "."
               THEN CHOOSE i \in 1..Len(body) : body[i] = "." ELSE Len(body) + 1
        whole == SubSeq(body, 1, dot - 1)
        frac == SubSeq(body, dot + 1, Len(body))
        frac3 == SubSeq(frac \o <<"0", "0", "0">>, 1, 3)
        a == DigitsValue(whole) * FloatScale + DigitsValue(frac3)
    IN  IF neg THEN 0 - a ELSE a

parse_float(cell) ==
    CASE cell.k = "none" -> None
      [] cell.k = "bool" -> None
      [] cell.k = "int" -> Some(cell.v * FloatScale)
      [] cell.k = "num" -> Some(cell.v)
      [] OTHER ->
           LET text == strip(str(cell))
           IN  IF text = <<>> \/ text = <<"-">> \/ text = <<"-", "-">>
                    \/ text = <<"c", "u", "s", "t", "o", "m", "e", "r">>
               THEN None
               ELSE LET t2 == CollapseDots(text)
                        m == NUMBER_PATTERN_search(t2)
                    IN  IF m = <<>> THEN None
                        ELSE Some(FloatOfMatch(RemoveCommas(SubSeq(t2, m[1], m[2]))))

(***************************************************************************)
(* parse_int                                                               *)
(***************************************************************************)
parse_int(cell) ==
    LET parsed == parse_float(cell)
    IN  IF IsNone(parsed) THEN None
        ELSE IF parsed[1] % FloatScale # 0 THEN None
        ELSE Some(parsed[1] \div FloatScale)

(***************************************************************************)
(* parse_date and datetime.strptime for the six layouts                    *)
(***************************************************************************)
\* text.split(sep) for a one-character separator
RECURSIVE Split(_, _)
Split(t, sep) ==
    IF \E i \in 1..Len(t) : t[i] = sep
    THEN LET i == CHOOSE j \in 1..Len(t) : t[j] = sep /\ \A h \in 1..(j - 1) : t[h] # sep
         IN  <<SubSeq(t, 1, i - 1)>> \o Split(SubSeq(t, i + 1, Len(t)), sep)
    ELSE <<t>>

IsLeap(y) == (y % 4 = 0 /\ y % 100 # 0) \/ y % 400 = 0

DaysInMonth(y, m) ==
    IF m = 2 THEN (IF IsLeap(y) THEN 29 ELSE 28)
    ELSE IF m \in {4, 6, 9, 11} THEN 30 ELSE 31

\* the six layouts of parse_date, in the order they are tried:
\* the separator, the order of the fields, the digits of the year
formats ==
    << [sep |-> "/", order |-> "dmy", ylen |-> 2],
       [sep |-> "/", order |-> "dmy", ylen |-> 4],
       [sep |-> "-", order |-> "ymd", ylen |-> 4],
       [sep |-> "-", order |-> "dmy", ylen |-> 4],
       [sep |-> "/", order |-> "mdy", ylen |-> 4],
       [sep |-> "/", order |-> "mdy", ylen |-> 2] >>

\* %d and %m take one or two digits and no value 0; %y takes two digits
\* (00-68 are 2000-2068, 69-99 are 1969-1999); %Y takes four digits.
strptime(text, fmt) ==
    LET parts == Split(text, fmt.sep)
        yi == IF fmt.order = "ymd" THEN 1 ELSE 3
        mi == IF fmt.order = "mdy" THEN 1 ELSE 2
        di == IF fmt.order = "dmy" THEN 1 ELSE IF fmt.order = "mdy" THEN 2 ELSE 3
        yv == DigitsValue(parts[yi])
        y == IF fmt.ylen = 4 THEN yv ELSE IF yv <= 68 THEN 2000 + yv ELSE 1900 + yv
        m == DigitsValue(parts[mi])
        d == DigitsValue(parts[di])
    IN  IF /\ Len(parts) = 3
           /\ \A i \in 1..3 : AllDigits(parts[i])
           /\ Len(parts[yi]) = fmt.ylen
           /\ Len(parts[mi]) \in {1, 2}
           /\ Len(parts[di]) \in {1, 2}
           /\ y >= 1
           /\ m \in 1..12
           /\ d >= 1
           /\ d <= DaysInMonth(y, m)
        THEN Some(<<y, m, d>>)
        ELSE None

\* the for loop over formats: the first layout that parses wins
RECURSIVE TryFormats(_, _)
TryFormats(text, i) ==
    IF i > Len(formats) THEN None
    ELSE IF NotNone(strptime(text, formats[i])) THEN strptime(text, formats[i])
    ELSE TryFormats(text, i + 1)

\* mutant: a placeholder is returned without its text
parse_date_PlaceholderRawNull(cell) ==
    IF cell.k = "none" THEN <<None, None>>
    ELSE IF cell.k = "date" THEN <<Some(cell.v), Some(isoformat(cell.v))>>
    ELSE LET text == strip(str(cell))
         IN  IF text = <<>> \/ text = <<"-">> \/ text = <<"-", "-">>
                  \/ text = <<"#", "V", "A", "L", "U", "E", "!">>
             THEN <<None, None>>
             ELSE <<TryFormats(text, 1), Some(text)>>

\* parse_date returns <<date, raw text>>, both optional
parse_date(cell) ==
    IF cell.k = "none" THEN <<None, None>>
    ELSE IF cell.k = "date" THEN <<Some(cell.v), Some(isoformat(cell.v))>>
    ELSE LET text == strip(str(cell))
         IN  IF text = <<>> \/ text = <<"-">> \/ text = <<"-", "-">>
                  \/ text = <<"#", "V", "A", "L", "U", "E", "!">>
             THEN <<None, IF text # <<>> THEN Some(text) ELSE None>>
             ELSE <<TryFormats(text, 1), Some(text)>>

(***************************************************************************)
(* parse_weight_and_pcs and its three patterns                             *)
(***************************************************************************)
UpperChars ==
    <<"A", "B", "C", "D", "E", "F", "G", "H", "I", "J", "K", "L", "M",
      "N", "O", "P", "Q", "R", "S", "T", "U", "V", "W", "X", "Y", "Z">>
LowerChars ==
    <<"a", "b", "c", "d", "e", "f", "g", "h", "i", "j", "k", "l", "m",
      "n", "o", "p", "q", "r", "s", "t", "u", "v", "w", "x", "y", "z">>

\* str.lower()
lower(t) ==
    [i \in 1..Len(t) |->
        IF \E j \in 1..26 : UpperChars[j] = t[i]
        THEN LowerChars[CHOOSE j \in 1..26 : UpperChars[j] = t[i]]
        ELSE t[i]]

\* "-?\d+(?:\.\d+)?" matched at position i: the end of the match, 0 when none
PlainNumberEnd(t, i) ==
    IF i > Len(t) THEN 0
    ELSE LET d == IF t[i] = "-" THEN i + 1 ELSE i
             e1 == DigitRunEnd(t, d)
             e2 == IF e1 + 2 <= Len(t) /\ t[e1 + 1] = "." /\ IsDigit(t[e1 + 2])
                   THEN DigitRunEnd(t, e1 + 2) ELSE e1
         IN  IF e1 < d THEN 0 ELSE e2

\* the end of the run of whitespace that starts at position i (i - 1 when none)
RECURSIVE SpaceRunEnd(_, _)
SpaceRunEnd(t, i) ==
    IF i <= Len(t) /\ IsSpace(t[i]) THEN SpaceRunEnd(t, i + 1) ELSE i - 1

\* whether the word w stands in t at position i
WordAt(t, i, w) == i + Len(w) - 1 <= Len(t) /\ SubSeq(t, i, i + Len(w) - 1) = w

\* the text contains the word: "w in t"
Contains(t, w) == \E i \in 1..Len(t) : WordAt(t, i, w)

\* a pattern "(-?\d+(?:\.\d+)?)\s*(?:w1|w2|...)" searched in t from position
\* i: group 1 of the leftmost match, <<>> when there is none.  A number cut
\* short is followed by a digit or by ".", never by whitespace or the unit,
\* so only the longest number at a position can match.
RECURSIVE NumberBeforeUnit(_, _, _)
NumberBeforeUnit(t, i, units) ==
    IF i > Len(t) THEN <<>>
    ELSE LET e == PlainNumberEnd(t, i)
         IN  IF e # 0 /\ \E w \in units : WordAt(t, SpaceRunEnd(t, e + 1) + 1, w)
             THEN SubSeq(t, i, e)
             ELSE NumberBeforeUnit(t, i + 1, units)

\* CT_PATTERN.search(lower): group 1, <<>> when there is no match
CT_PATTERN_search(t) == NumberBeforeUnit(t, 1, {<<"c", "t">>})

\* PCS_PATTERN.search(lower): "pcs?" and "pieces?" match where "pc" and
\* "piece" stand
PCS_PATTERN_search(t) ==
    NumberBeforeUnit(t, 1, {<<"p", "c">>, <<"p", "i", "e", "c", "e">>})

\* SLASH_NUMBER_PATTERN.search(lower): group 1 of the leftmost "/", optional
\* whitespace and a number
RECURSIVE SlashSearchFrom(_, _)
SlashSearchFrom(t, i) ==
    IF i > Len(t) THEN <<>>
    ELSE LET s == SpaceRunEnd(t, i + 1) + 1
         IN  IF t[i] = "/" /\ PlainNumberEnd(t, s) # 0
             THEN SubSeq(t, s, PlainNumberEnd(t, s))
             ELSE SlashSearchFrom(t, i + 1)

SLASH_NUMBER_PATTERN_search(t) == SlashSearchFrom(t, 1)

\* mutant: the number after a slash is taken before the piece marker
parse_weight_and_pcs_SlashFirst(raw) ==
    IF IsNone(raw) \/ raw = Some(<<>>) THEN <<None, None>>
    ELSE LET low == lower(raw[1])
             ct_match == CT_PATTERN_search(low)
             ct_value == IF ct_match # <<>> THEN parse_float(StrCell(ct_match)) ELSE None
             pcs_match == PCS_PATTERN_search(low)
             slash_match == SLASH_NUMBER_PATTERN_search(low)
             pcs_value == IF slash_match # <<>> THEN parse_float(StrCell(slash_match))
                          ELSE IF pcs_match # <<>> THEN parse_float(StrCell(pcs_match))
                          ELSE None
         IN  IF IsNone(ct_value) /\ IsNone(pcs_value)
             THEN IF Contains(low, <<"p", "c">>)
                  THEN <<ct_value, parse_float(StrCell(low))>>
                  ELSE <<parse_float(StrCell(low)), pcs_value>>
             ELSE <<ct_value, pcs_value>>

\* parse_weight_and_pcs(raw) returns <<ct_value, pcs_value>>; raw is None
\* or Some(text)
parse_weight_and_pcs(raw) ==
    IF IsNone(raw) \/ raw = Some(<<>>) THEN <<None, None>>
    ELSE LET low == lower(raw[1])
             ct_match == CT_PATTERN_search(low)
             ct_value == IF ct_match # <<>> THEN parse_float(StrCell(ct_match)) ELSE None
             pcs_match == PCS_PATTERN_search(low)
             pcs1 == IF pcs_match # <<>> THEN parse_float(StrCell(pcs_match)) ELSE None
             slash_match == SLASH_NUMBER_PATTERN_search(low)
             pcs_value == IF slash_match # <<>> /\ IsNone(pcs1)
                          THEN parse_float(StrCell(slash_match)) ELSE pcs1
         IN  IF IsNone(ct_value) /\ IsNone(pcs_value)
             THEN IF Contains(low, <<"p", "c">>)
                  THEN <<ct_value, parse_float(StrCell(low))>>
                  ELSE <<parse_float(StrCell(low)), pcs_value>>
             ELSE <<ct_value, pcs_value>>

(***************************************************************************)
(* The usage sheets and their rows                                         *)
(***************************************************************************)
\* USAGE_SHEET_CATEGORY, in the order main() iterates over it
USAGE_SHEET_CATEGORY ==
    << <<"Earrings", "earrings">>, <<"Neckelet", "necklace">>,
       <<"Bracelet", "bracelet">>, <<"Brooch", "brooch">>,
       <<"Clips+Cuffinks", "clips_cufflinks">>, <<"Ring", "ring">> >>

SheetNames == {USAGE_SHEET_CATEGORY[i][1] : i \in 1..Len(USAGE_SHEET_CATEGORY)}

\* the first data row of a sheet: range(3, sheet.max_row + 1)
FirstRow == 3

\* The header-repeat labels, one token per code point.
CustomerLabelThai == <<"U+0E25", "U+0E39", "U+0E01", "U+0E04", "U+0E49", "U+0E32">>
CustomerLabel == <<"c", "u", "s", "t", "o", "m", "e", "r">>
ItemNameLabel ==
    <<"U+0E0A", "U+0E37", "U+0E48", "U+0E2D", "U+0E1E", "U+0E25", "U+0E2D", "U+0E22">>

\* A row is the tuple of its twelve cells, sheet.cell(row_idx, 1..12).
Digit(r) == DigitChars[(r % 10) + 1]

BlankRow == [c \in 1..12 |-> EmptyCell]

\* The cell values of the explored sheets name the row they stand on, so
\* that a value found in a batch or a line tells which row it came from.
CodeCell(r) == StrCell(<<"P", Digit(r)>>)
RequesterCell(r) == StrCell(<<"R", Digit(r)>>)
ItemCell(r) == StrCell(<<"G", Digit(r), " ">>)
DateTextCell(r) == StrCell(<<Digit(r), "/", "1", "/", "2", "4">>)
BadDateCell(r) == StrCell(<<"?", Digit(r)>>)
PriceCell(r) == StrCell(<<Digit(r), "0", "0", ".", "-">>)

\* the simple rows of sheet row r: one kind of content each
CodeRow(r) == [BlankRow EXCEPT ![3] = CodeCell(r)]
ItemRow(r) ==
    [BlankRow EXCEPT ![5] = ItemCell(r), ![6] = IntCell(r),
                     ![7] = NumCell(r * FloatScale + 500), ![8] = PriceCell(r),
                     ![9] = StrCell(<<"-">>)]
HeadRow(r) == [BlankRow EXCEPT ![1] = DateTextCell(r), ![2] = RequesterCell(r)]
TotalRow(r) == [BlankRow EXCEPT ![10] = IntCell(100 * r)]

SimpleRows(r) == {CodeRow(r), ItemRow(r), HeadRow(r), TotalRow(r)}

\* the free rows of sheet row r: every combination of the cells the row
\* classification reads
FreeRows(r) ==
    { [BlankRow EXCEPT ![1] = c1, ![2] = c2, ![3] = c3, ![4] = c49[1], ![5] = c5,
                       ![9] = c49[2], ![10] = c10, ![11] = c11] :
        c1 \in {EmptyCell, BadDateCell(r), DateCell(<<2024, 2, r>>)},
        c2 \in {EmptyCell, StrCell(CustomerLabelThai), StrCell(CustomerLabel),
                RequesterCell(r)},
        c3 \in {EmptyCell, CodeCell(r)},
        c49 \in {<<EmptyCell, EmptyCell>>, <<IntCell(r), EmptyCell>>,
                 <<EmptyCell, NumCell(r * FloatScale)>>},
        c5 \in {EmptyCell, StrCell(ItemNameLabel), ItemCell(r)},
        c10 \in {EmptyCell, NumCell(r * FloatScale + 250)},
        c11 \in {EmptyCell, IntCell(r)} }

(***************************************************************************)
(* parse_usage_sheet: the state of one pass and the row handler            *)
(***************************************************************************)
VARIABLES
    pc,               \* where main() stands: "main", "rows", "remap", "done"
    sheet_idx,        \* position of the loop over USAGE_SHEET_CATEGORY
    sheetnames,       \* the usage sheets found in workbook.sheetnames so far
    workbook,         \* per sheet name, the rows read so far (row 3 first)
    row_idx,          \* parse_usage_sheet: the row the loop reads next
    next_local_id,    \* parse_usage_sheet: next_local_id
    current,          \* parse_usage_sheet: current (None or Some(batch))
    batches,          \* parse_usage_sheet: batches
    lines,            \* parse_usage_sheet: lines
    filtered_batches, \* what parse_usage_sheet returned: main's batches
    filtered_lines,   \* what parse_usage_sheet returned: main's lines
    local_id_map,     \* main: local_id_map, a function local id -> global id
    bi,               \* main: position of the loop "for batch in batches"
    li,               \* main: position of the loop "for line in lines"
    usage_batches,    \* main: usage_batches
    usage_lines,      \* main: usage_lines
    inventory_sheet,  \* the rows of the first sheet read so far (row 3 first)
    rows,             \* parse_inventory_sheet: rows
    inventory_rows,   \* main: inventory_rows
    truncate_first,   \* build_import_sql: truncate_first (not args.no_truncate)
    now,              \* the clock: unix seconds of dt.datetime.now(dt.timezone.utc)
    statements,       \* build_import_sql: statements
    store,            \* the three relations of the external store
    history,          \* the earlier runs of the import against the store
    input_value,      \* the argument (value) of a scalar normalizer
    returned          \* what the scalar normalizer returned (None before the call)

vars ==
    <<pc, sheet_idx, sheetnames, workbook, row_idx, next_local_id, current,
      batches, lines, filtered_batches, filtered_lines, local_id_map, bi, li,
      usage_batches, usage_lines, inventory_sheet, rows, inventory_rows,
      truncate_first, now, statements, store, history, input_value, returned>>

\* the variables of the usage-sheet loop of main() and of parse_usage_sheet
usage_vars ==
    <<sheet_idx, sheetnames, workbook, row_idx, next_local_id, current,
      batches, lines, filtered_batches, filtered_lines, local_id_map, bi, li>>
\* the variables of parse_inventory_sheet
inventory_vars == <<inventory_sheet, rows>>
\* the variables of build_import_sql and of the execution of its command
sql_vars == <<truncate_first, now, statements, store, history>>
\* the variables of a call of a scalar normalizer
scalar_vars == <<input_value, returned>>

parse_vars == <<row_idx, next_local_id, current, batches, lines>>
remap_vars == <<filtered_batches, filtered_lines, local_id_map, bi, li>>

sheet_name == USAGE_SHEET_CATEGORY[sheet_idx][1]
category == USAGE_SHEET_CATEGORY[sheet_idx][2]

\* the loop body's reads and normalizations of the twelve cells of a row
ReadRow(raw) ==
    [ transaction_date |-> parse_date(raw[1])[1],
      transaction_date_raw |-> parse_date(raw[1])[2],
      requester_name |-> normalize_text(raw[2]),
      product_code |-> normalize_text(raw[3]),
      gemstone_number |-> parse_int(raw[4]),
      gemstone_name |-> normalize_text(raw[5]),
      used_pcs |-> parse_float(raw[6]),
      used_weight_ct |-> parse_float(raw[7]),
      unit_price_raw |-> normalize_text(raw[8]),
      line_amount |-> parse_float(raw[9]),
      total_amount |-> parse_float(raw[10]),
      balance_pcs_after |-> parse_float(raw[11]),
      balance_ct_after |-> parse_float(raw[12]) ]

\* mutant: the header-repeat test knows the English label only
IsHeaderRepeat_EnglishOnly(r) ==
    \/ /\ r.requester_name = Some(CustomerLabel)
       /\ IsNone(r.product_code)
       /\ IsNone(r.gemstone_name)
    \/ r.gemstone_name = Some(ItemNameLabel)

\* "Skip header-like rows that appear below row 1": the two continue tests
IsHeaderRepeat(r) ==
    \/ /\ r.requester_name \in {Some(CustomerLabelThai), Some(CustomerLabel)}
       /\ IsNone(r.product_code)
       /\ IsNone(r.gemstone_name)
    \/ r.gemstone_name = Some(ItemNameLabel)

has_line(r) ==
    \/ NotNone(r.gemstone_number)
    \/ NotNone(r.gemstone_name)
    \/ NotNone(r.used_pcs)
    \/ NotNone(r.used_weight_ct)
    \/ NotNone(r.unit_price_raw)
    \/ NotNone(r.line_amount)

has_batch_marker(r) ==
    \/ NotNone(r.product_code)
    \/ NotNone(r.total_amount)
    \/ NotNone(r.transaction_date)

\* mutant: any batch marker starts a new batch
should_start_new_batch_AnyMarker(r) ==
    NotNone(r.product_code) \/ NotNone(r.total_amount) \/ NotNone(r.transaction_date)

\* mutant: a product code starts no batch
should_start_new_batch_Never(r) == FALSE

should_start_new_batch(r) == NotNone(r.product_code)

\* mutant: flush_current forgets to append the batch
flush_current_NoAppend(st) == [st EXCEPT !.current = None]

\* mutant: flush_current appends the batch and leaves it open
flush_current_NoClear(st) ==
    IF st.current # <<>>
    THEN [st EXCEPT !.batches = Append(st.batches, st.current[1])]
    ELSE st

\* the state of the pass: [current, batches, lines, next_local_id]
\* flush_current()
flush_current(st) ==
    IF NotNone(st.current)
    THEN [st EXCEPT !.batches = Append(st.batches, st.current[1]), !.current = None]
    ELSE st

\* mutant: the id counter stays where it is
OpenBatch_KeepCounter(st, r, ridx, sname, cat) ==
    [st EXCEPT
        !.current = Some([ local_id |-> st.next_local_id,
                           source_sheet |-> sname,
                           source_row |-> ridx,
                           product_category |-> cat,
                           transaction_date |-> r.transaction_date,
                           transaction_date_raw |-> r.transaction_date_raw,
                           requester_name |-> r.requester_name,
                           product_code |-> r.product_code,
                           total_amount |-> r.total_amount ])]

\* UsageBatch(...) of the row, and next_local_id += 1
OpenBatch(st, r, ridx, sname, cat) ==
    [st EXCEPT
        !.current = Some([ local_id |-> st.next_local_id,
                           source_sheet |-> sname,
                           source_row |-> ridx,
                           product_category |-> cat,
                           transaction_date |-> r.transaction_date,
                           transaction_date_raw |-> r.transaction_date_raw,
                           requester_name |-> r.requester_name,
                           product_code |-> r.product_code,
                           total_amount |-> r.total_amount ]),
        !.next_local_id = st.next_local_id + 1]

\* the elif branch: the fields the open batch takes from a later row
MergeDate(b, r) ==
    IF IsNone(b.transaction_date) /\ NotNone(r.transaction_date)
    THEN [b EXCEPT !.transaction_date = r.transaction_date,
                   !.transaction_date_raw = r.transaction_date_raw]
    ELSE b

\* mutant: a later requester replaces the batch's
MergeRequester_Overwrite(b, r) ==
    IF r.requester_name # <<>>
    THEN [b EXCEPT !.requester_name = r.requester_name] ELSE b

MergeRequester(b, r) ==
    IF IsNone(b.requester_name) /\ NotNone(r.requester_name)
    THEN [b EXCEPT !.requester_name = r.requester_name] ELSE b

MergeProductCode(b, r) ==
    IF IsNone(b.product_code) /\ NotNone(r.product_code)
    THEN [b EXCEPT !.product_code = r.product_code] ELSE b

\* mutant: the total is merged like the other fields, first non-null wins
MergeTotal_FirstWins(b, r) ==
    IF b.total_amount = <<>> /\ r.total_amount # <<>>
    THEN [b EXCEPT !.total_amount = r.total_amount] ELSE b

\* mutant: the total is overwritten by every row, null or not
MergeTotal_Always(b, r) == [b EXCEPT !.total_amount = r.total_amount]

MergeTotal(b, r) ==
    IF NotNone(r.total_amount) THEN [b EXCEPT !.total_amount = r.total_amount] ELSE b

MergeRow(st, r) ==
    [st EXCEPT !.current =
        Some(MergeTotal(MergeProductCode(MergeRequester(MergeDate(st.current[1], r), r), r), r))]

\* mutant: line content alone opens no batch
OpenOrMerge_MarkerOnly(st, r, ridx, sname, cat) ==
    IF IsNone(st.current) /\ has_batch_marker(r)
    THEN OpenBatch(st, r, ridx, sname, cat)
    ELSE IF NotNone(st.current) THEN MergeRow(st, r)
    ELSE st

\* "if current is None and (has_line or has_batch_marker): ... elif current
\* is not None: ..."
OpenOrMerge(st, r, ridx, sname, cat) ==
    IF IsNone(st.current) /\ (has_line(r) \/ has_batch_marker(r))
    THEN OpenBatch(st, r, ridx, sname, cat)
    ELSE IF NotNone(st.current) THEN MergeRow(st, r)
    ELSE st

\* mutant: the line takes the id counter instead of the current batch's id
EmitLine_NextId(st, r, ridx) ==
    [st EXCEPT !.lines = Append(st.lines,
        [ local_batch_id |-> st.next_local_id,
          source_row |-> ridx,
          gemstone_number |-> r.gemstone_number,
          gemstone_name |-> r.gemstone_name,
          used_pcs |-> r.used_pcs,
          used_weight_ct |-> r.used_weight_ct,
          unit_price_raw |-> r.unit_price_raw,
          line_amount |-> r.line_amount,
          balance_pcs_after |-> r.balance_pcs_after,
          balance_ct_after |-> r.balance_ct_after,
          requester_name |-> r.requester_name ])]

\* UsageLine(...) of the row against the batch that is current
EmitLine(st, r, ridx) ==
    [st EXCEPT !.lines = Append(st.lines,
        [ local_batch_id |-> st.current[1].local_id,
          source_row |-> ridx,
          gemstone_number |-> r.gemstone_number,
          gemstone_name |-> r.gemstone_name,
          used_pcs |-> r.used_pcs,
          used_weight_ct |-> r.used_weight_ct,
          unit_price_raw |-> r.unit_price_raw,
          line_amount |-> r.line_amount,
          balance_pcs_after |-> r.balance_pcs_after,
          balance_ct_after |-> r.balance_ct_after,
          requester_name |-> r.requester_name ])]

\* mutant: a row without line content and batch marker is not skipped
RowStep_NoNoiseFilter(st, r, ridx, sname, cat) ==
    IF IsHeaderRepeat(r) THEN st
    ELSE LET s1 == IF should_start_new_batch(r) THEN flush_current(st) ELSE st
             s2 == OpenOrMerge(s1, r, ridx, sname, cat)
         IN  IF IsNone(s2.current) THEN s2
             ELSE IF has_line(r) THEN EmitLine(s2, r, ridx)
             ELSE s2

\* one iteration of the loop over the rows, on the pass state st
RowStep(st, r, ridx, sname, cat) ==
    IF IsHeaderRepeat(r) THEN st
    ELSE IF ~has_line(r) /\ ~has_batch_marker(r) THEN st
    ELSE LET s1 == IF should_start_new_batch(r) THEN flush_current(st) ELSE st
             s2 == OpenOrMerge(s1, r, ridx, sname, cat)
         IN  IF IsNone(s2.current) THEN s2
             ELSE IF has_line(r) THEN EmitLine(s2, r, ridx)
             ELSE s2

\* mutant: the post-pass keeps every batch
KeepBatch_All(batch, ls) == TRUE

\* mutant: the lines of a batch do not count
KeepBatch_IgnoreLines(batch, ls) ==
    \/ NotNone(batch.product_code)
    \/ NotNone(batch.total_amount)

\* "Keep only batches that have usable identifiers or lines."
KeepBatch(batch, ls) ==
    \/ \E i \in 1..Len(ls) : ls[i].local_batch_id = batch.local_id
    \/ NotNone(batch.product_code)
    \/ NotNone(batch.total_amount)

FilterBatches(bs, ls) == SelectSeq(bs, LAMBDA b : KeepBatch(b, ls))

FilterLines(fbs, ls) ==
    SelectSeq(ls, LAMBDA l : \E i \in 1..Len(fbs) : fbs[i].local_id = l.local_batch_id)

(***************************************************************************)
(* The explored workbooks.  The cells of a row are fixed when the loop     *)
(* reads the row, and whether a sheet exists when main() reaches its name. *)
(* A run reads either simple rows only (at most MaxRows, one less for      *)
(* every sheet after the first, over at most MaxSheets sheets) or one free *)
(* row among at most MaxSimpleRows simple rows, on the last usage sheet,   *)
(* the only sheet of the workbook.                                         *)
(***************************************************************************)
RowPositions(wb) == {<<n, k>> \in SheetNames \X (1..(MaxRows + MaxSimpleRows + 1)) : k <= Len(wb[n])}
SimpleCount(wb) ==
    Cardinality({p \in RowPositions(wb) : wb[p[1]][p[2]] \in SimpleRows(p[2] + FirstRow - 1)})
FreeCount(wb) ==
    Cardinality({p \in RowPositions(wb) : wb[p[1]][p[2]] \notin SimpleRows(p[2] + FirstRow - 1)})

\* the simple rows a workbook of so many sheets may hold: one less for
\* every further sheet
RowBudget(names) == MaxRows + 1 - Cardinality(names)

RowInputs(wb, names, sidx, r) ==
    (IF SimpleCount(wb) < (IF FreeCount(wb) > 0 THEN MaxSimpleRows ELSE RowBudget(names))
     THEN SimpleRows(r) ELSE {})
    \cup
    (IF FreeCount(wb) = 0 /\ SimpleCount(wb) <= MaxSimpleRows
           /\ sidx = Len(USAGE_SHEET_CATEGORY) /\ Cardinality(names) = 1
     THEN FreeRows(r) \ SimpleRows(r) ELSE {})

SheetMayExist(wb, names) ==
    /\ Cardinality(names) < MaxSheets
    /\ FreeCount(wb) = 0
    /\ SimpleCount(wb) <= MaxRows - Cardinality(names)

(***************************************************************************)
(* The parts of the program a specification does not run stand still at    *)
(* these values.                                                           *)
(***************************************************************************)
\* the three relations of the store, each the rows inserted, in order
EmptyStore ==
    [ gem_inventory_items |-> <<>>, gem_usage_batches |-> <<>>, gem_usage_lines |-> <<>> ]

InventoryNotStarted == inventory_sheet = <<>> /\ rows = <<>>

SqlNotStarted ==
    /\ truncate_first = TRUE
    /\ now = 0
    /\ statements = <<>>
    /\ store = EmptyStore
    /\ history = <<>>

ScalarNotCalled == input_value = EmptyCell /\ returned = None

UsageNotStarted ==
    /\ sheet_idx = 1
    /\ sheetnames = {}
    /\ workbook = [n \in SheetNames |-> <<>>]
    /\ row_idx = FirstRow
    /\ next_local_id = 1
    /\ current = None
    /\ batches = <<>>
    /\ lines = <<>>
    /\ filtered_batches = <<>>
    /\ filtered_lines = <<>>
    /\ local_id_map = <<>>
    /\ bi = 1
    /\ li = 1

(***************************************************************************)
(* main(): the loop over USAGE_SHEET_CATEGORY                              *)
(***************************************************************************)
Init ==
    /\ pc = "main"
    /\ sheet_idx = 1
    /\ sheetnames = {}
    /\ workbook = [n \in SheetNames |-> <<>>]
    /\ row_idx = FirstRow
    /\ next_local_id = 1
    /\ current = None
    /\ batches = <<>>
    /\ lines = <<>>
    /\ filtered_batches = <<>>
    /\ filtered_lines = <<>>
    /\ local_id_map = <<>>
    /\ bi = 1
    /\ li = 1
    /\ usage_batches = <<>>
    /\ usage_lines = <<>>
    /\ InventoryNotStarted
    /\ inventory_rows = <<>>
    /\ SqlNotStarted
    /\ ScalarNotCalled

\* "if sheet_name not in workbook.sheetnames: continue"
SkipSheet ==
    /\ pc = "main"
    /\ sheet_idx <= Len(USAGE_SHEET_CATEGORY)
    /\ sheet_idx' = sheet_idx + 1
    /\ UNCHANGED <<pc, sheetnames, workbook, parse_vars, remap_vars,
                   usage_batches, usage_lines>>
    /\ UNCHANGED <<inventory_vars, inventory_rows, sql_vars, scalar_vars>>

\* mutant: the id counter goes on from the sheet before
StartSheet_KeepCounter ==
    /\ pc = "main"
    /\ sheet_idx <= Len(USAGE_SHEET_CATEGORY)
    /\ SheetMayExist(workbook, sheetnames)
    /\ sheetnames' = sheetnames \cup {sheet_name}
    /\ batches' = <<>>
    /\ lines' = <<>>
    /\ next_local_id' = next_local_id
    /\ current' = None
    /\ row_idx' = FirstRow
    /\ pc' = "rows"
    /\ UNCHANGED <<sheet_idx, workbook, remap_vars, usage_batches, usage_lines>>
    /\ UNCHANGED <<inventory_vars, inventory_rows, sql_vars, scalar_vars>>

\* the call of parse_usage_sheet: its locals before the first row
StartSheet ==
    /\ pc = "main"
    /\ sheet_idx <= Len(USAGE_SHEET_CATEGORY)
    /\ SheetMayExist(workbook, sheetnames)
    /\ sheetnames' = sheetnames \cup {sheet_name}
    /\ batches' = <<>>
    /\ lines' = <<>>
    /\ next_local_id' = 1
    /\ current' = None
    /\ row_idx' = FirstRow
    /\ pc' = "rows"
    /\ UNCHANGED <<sheet_idx, workbook, remap_vars, usage_batches, usage_lines>>
    /\ UNCHANGED <<inventory_vars, inventory_rows, sql_vars, scalar_vars>>

PassState ==
    [current |-> current, batches |-> batches, lines |-> lines,
     next_local_id |-> next_local_id]

\* one iteration of "for row_idx in range(3, sheet.max_row + 1)"
ProcessRow ==
    /\ pc = "rows"
    /\ \E raw \in RowInputs(workbook, sheetnames, sheet_idx, row_idx) :
          LET st == RowStep(PassState, ReadRow(raw), row_idx, sheet_name, category)
          IN  /\ workbook' = [workbook EXCEPT ![sheet_name] = Append(@, raw)]
              /\ current' = st.current
              /\ batches' = st.batches
              /\ lines' = st.lines
              /\ next_local_id' = st.next_local_id
    /\ row_idx' = row_idx + 1
    /\ UNCHANGED <<pc, sheet_idx, sheetnames, remap_vars, usage_batches, usage_lines>>
    /\ UNCHANGED <<inventory_vars, inventory_rows, sql_vars, scalar_vars>>

\* the end of the sheet: flush_current(), the post-pass and the return to
\* main(), which starts an empty local_id_map
EndSheet ==
    /\ pc = "rows"
    /\ LET st == flush_current(PassState)
           fb == FilterBatches(st.batches, st.lines)
       IN  /\ current' = st.current
           /\ batches' = st.batches
           /\ filtered_batches' = fb
           /\ filtered_lines' = FilterLines(fb, st.lines)
    /\ local_id_map' = <<>>
    /\ bi' = 1
    /\ li' = 1
    /\ pc' = "remap"
    /\ UNCHANGED <<sheet_idx, sheetnames, workbook, row_idx, next_local_id, lines,
                   usage_batches, usage_lines>>
    /\ UNCHANGED <<inventory_vars, inventory_rows, sql_vars, scalar_vars>>

\* dict assignment local_id_map[key] = value
DictSet(m, key, value) ==
    [k \in (DOMAIN m) \cup {key} |-> IF k = key THEN value ELSE m[k]]

\* mutant: the line keeps the local id it carried
DictGet_Unmapped(m, key) == Some(key)

\* local_id_map.get(key)
DictGet(m, key) == IF key \in DOMAIN m THEN Some(m[key]) ELSE None

\* mutant: global ids counted from 0
NextGlobalId_ZeroBased(ubs) == Len(ubs)

\* the global id main() gives the next batch
NextGlobalId(ubs) == Len(ubs) + 1

\* one iteration of "for batch in batches"; the batch object is shared by
\* the returned list and usage_batches
RemapBatch ==
    /\ pc = "remap"
    /\ bi <= Len(filtered_batches)
    /\ LET batch == filtered_batches[bi]
           next_global_id == NextGlobalId(usage_batches)
           renamed == [batch EXCEPT !.local_id = next_global_id]
       IN  /\ local_id_map' = DictSet(local_id_map, batch.local_id, next_global_id)
           /\ filtered_batches' = [filtered_batches EXCEPT ![bi] = renamed]
           /\ usage_batches' = Append(usage_batches, renamed)
    /\ bi' = bi + 1
    /\ UNCHANGED <<pc, sheet_idx, sheetnames, workbook, parse_vars, filtered_lines, li,
                   usage_lines>>
    /\ UNCHANGED <<inventory_vars, inventory_rows, sql_vars, scalar_vars>>

\* one iteration of "for line in lines"
RemapLine ==
    /\ pc = "remap"
    /\ bi > Len(filtered_batches)
    /\ li <= Len(filtered_lines)
    /\ LET line == filtered_lines[li]
           remapped == DictGet(local_id_map, line.local_batch_id)
       IN  IF IsNone(remapped)
           THEN UNCHANGED <<filtered_lines, usage_lines>>
           ELSE LET renamed == [line EXCEPT !.local_batch_id = remapped[1]]
                IN  /\ filtered_lines' = [filtered_lines EXCEPT ![li] = renamed]
                    /\ usage_lines' = Append(usage_lines, renamed)
    /\ li' = li + 1
    /\ UNCHANGED <<pc, sheet_idx, sheetnames, workbook, parse_vars, filtered_batches,
                   local_id_map, bi, usage_batches>>
    /\ UNCHANGED <<inventory_vars, inventory_rows, sql_vars, scalar_vars>>

\* both loops are over: back to the loop over the sheets
NextSheet ==
    /\ pc = "remap"
    /\ bi > Len(filtered_batches)
    /\ li > Len(filtered_lines)
    /\ sheet_idx' = sheet_idx + 1
    /\ pc' = "main"
    /\ UNCHANGED <<sheetnames, workbook, parse_vars, remap_vars, usage_batches,
                   usage_lines>>
    /\ UNCHANGED <<inventory_vars, inventory_rows, sql_vars, scalar_vars>>

\* the loop over the sheets is over: the assembled records are printed
Finish ==
    /\ pc = "main"
    /\ sheet_idx > Len(USAGE_SHEET_CATEGORY)
    /\ pc' = "done"
    /\ UNCHANGED <<sheet_idx, sheetnames, workbook, parse_vars, remap_vars,
                   usage_batches, usage_lines>>
    /\ UNCHANGED <<inventory_vars, inventory_rows, sql_vars, scalar_vars>>

Next ==
    \/ SkipSheet
    \/ StartSheet
    \/ ProcessRow
    \/ EndSheet
    \/ RemapBatch
    \/ RemapLine
    \/ NextSheet
    \/ Finish

Spec == Init /\ [][Next]_vars

(***************************************************************************)
(* parse_inventory_sheet                                                   *)
(***************************************************************************)
\* the name of the first sheet of the workbook, workbook.sheetnames[0]
InventorySheetName == "Stock"

\* the loop body's reads of the eleven cells of a row; the catalogue number
\* and the two date cells are kept raw
ReadInventoryRow(raw) ==
    [ number_value |-> raw[1],
      gemstone_type |-> normalize_text(raw[2]),
      weight_raw |-> normalize_text(raw[3]),
      shape |-> normalize_text(raw[4]),
      price_ct_raw |-> normalize_text(raw[5]),
      price_piece_raw |-> normalize_text(raw[6]),
      buying_raw_value |-> raw[7],
      balance_pcs |-> parse_float(raw[8]),
      balance_ct |-> parse_float(raw[9]),
      use_raw_value |-> raw[10],
      owner_name |-> normalize_text(raw[11]) ]

\* the blank-row test: "if (number_value is None and ... ): continue"
IsBlankInventoryRow(r) ==
    /\ r.number_value.k = "none"
    /\ IsNone(r.gemstone_type)
    /\ IsNone(r.weight_raw)
    /\ IsNone(r.shape)
    /\ IsNone(r.price_ct_raw)
    /\ IsNone(r.price_piece_raw)
    /\ r.buying_raw_value.k = "none"
    /\ IsNone(r.balance_pcs)
    /\ IsNone(r.balance_ct)
    /\ r.use_raw_value.k = "none"
    /\ IsNone(r.owner_name)

\* a text or None as the cell parse_float is given
TextCell(o) == IF IsNone(o) THEN EmptyCell ELSE StrCell(o[1])

\* InventoryRow(...) of the row
InventoryRowOf(r, ridx, sname) ==
    [ source_sheet |-> sname,
      source_row |-> ridx,
      gemstone_number |-> parse_int(r.number_value),
      gemstone_number_text |-> normalize_text(r.number_value),
      gemstone_type |-> r.gemstone_type,
      weight_pcs_raw |-> r.weight_raw,
      shape |-> r.shape,
      price_per_ct_raw |-> r.price_ct_raw,
      price_per_piece_raw |-> r.price_piece_raw,
      buying_date |-> parse_date(r.buying_raw_value)[1],
      buying_date_raw |-> parse_date(r.buying_raw_value)[2],
      balance_pcs |-> r.balance_pcs,
      balance_ct |-> r.balance_ct,
      use_date |-> parse_date(r.use_raw_value)[1],
      use_date_raw |-> parse_date(r.use_raw_value)[2],
      owner_name |-> r.owner_name,
      parsed_weight_ct |-> parse_weight_and_pcs(r.weight_raw)[1],
      parsed_quantity_pcs |-> parse_weight_and_pcs(r.weight_raw)[2],
      parsed_price_per_ct |-> parse_float(TextCell(r.price_ct_raw)),
      parsed_price_per_piece |-> parse_float(TextCell(r.price_piece_raw)) ]

\* one iteration of the loop over the rows, on the list rows
InventoryStep(rs, raw, ridx, sname) ==
    LET r == ReadInventoryRow(raw)
    IN  IF IsBlankInventoryRow(r) THEN rs
        ELSE Append(rs, InventoryRowOf(r, ridx, sname))

(***************************************************************************)
(* The explored inventory sheets: at most MaxInventoryRows rows, each with *)
(* at most MaxFilled cells that are not empty, or filled in every column.  *)
(***************************************************************************)
BlankInventoryRow == [c \in 1..11 |-> EmptyCell]

DashCell == StrCell(<<"-">>)
SpaceCell == StrCell(<<" ">>)
WordCell == StrCell(<<"a", "b", "c">>)

\* what a cell of column c may hold
InventoryCells(c, r) ==
    {DashCell, SpaceCell}
        \cup (CASE c = 1 -> {IntCell(r), StrCell(<<"A", Digit(r)>>)}
                [] c = 3 -> {StrCell(<<Digit(r), " ", "C", "t">>), StrCell(<<Digit(r), "p", "c", "s">>)}
                [] c \in {5, 6} -> {PriceCell(r)}
                [] c \in {7, 10} -> {DateCell(<<2024, 2, r>>), DateTextCell(r), BadDateCell(r),
                                     StrCell(<<"-", "-">>)}
                [] c \in {8, 9} -> {NumCell(500 * r), IntCell(r), WordCell}
                [] OTHER -> {WordCell})

\* a row filled in every column
FullInventoryRow(r) ==
    [c \in 1..11 |->
        CASE c = 1 -> IntCell(r)
          [] c = 3 -> StrCell(<<Digit(r), " ", "C", "t">>)
          [] c \in {5, 6} -> PriceCell(r)
          [] c \in {7, 10} -> DateTextCell(r)
          [] c \in {8, 9} -> NumCell(500 * r)
          [] OTHER -> WordCell]

RECURSIVE FilledRows(_, _)
FilledRows(r, n) ==
    IF n = 0 THEN {BlankInventoryRow}
    ELSE LET less == FilledRows(r, n - 1)
         IN  less \cup UNION {{[row EXCEPT ![c] = x] : row \in less, x \in InventoryCells(c, r)} :
                                c \in 1..11}

InventoryRowInputs(r) == FilledRows(r, MaxFilled) \cup {FullInventoryRow(r)}

\* the call of parse_inventory_sheet: its locals before the first row
InventoryInit ==
    /\ pc = "inventory"
    /\ UsageNotStarted
    /\ usage_batches = <<>>
    /\ usage_lines = <<>>
    /\ InventoryNotStarted
    /\ inventory_rows = <<>>
    /\ SqlNotStarted
    /\ ScalarNotCalled

\* one iteration of "for row_idx in range(3, sheet.max_row + 1)"
ParseInventoryRow ==
    /\ pc = "inventory"
    /\ Len(inventory_sheet) < MaxInventoryRows
    /\ \E raw \in InventoryRowInputs(row_idx) :
          /\ inventory_sheet' = Append(inventory_sheet, raw)
          /\ rows' = InventoryStep(rows, raw, row_idx, InventorySheetName)
    /\ row_idx' = row_idx + 1
    /\ UNCHANGED <<pc, sheet_idx, sheetnames, workbook, next_local_id, current, batches,
                   lines, remap_vars, usage_batches, usage_lines, inventory_rows,
                   sql_vars, scalar_vars>>

\* "return rows", which main() keeps as inventory_rows
ReturnInventory ==
    /\ pc = "inventory"
    /\ inventory_rows' = rows
    /\ pc' = "inventory_done"
    /\ UNCHANGED <<usage_vars, usage_batches, usage_lines, inventory_vars, sql_vars,
                   scalar_vars>>

InventoryNext ==
    \/ ParseInventoryRow
    \/ ReturnInventory

InventorySpec == InventoryInit /\ [][InventoryNext]_vars

(***************************************************************************)
(* sql_literal and build_import_sql.  A statement is a record: what it     *)
(* does (op), the relation it names (table, "" when none) and, for an      *)
(* INSERT, the literals of its VALUES list in the order of its columns.    *)
(***************************************************************************)
\* the dataclass fields as the values sql_literal is given
OptStr(o) == IF IsNone(o) THEN EmptyCell ELSE StrCell(o[1])
OptInt(o) == IF IsNone(o) THEN EmptyCell ELSE IntCell(o[1])
OptNum(o) == IF IsNone(o) THEN EmptyCell ELSE NumCell(o[1])
OptDate(o) == IF IsNone(o) THEN EmptyCell ELSE DateCell(o[1])
\* a sheet name or a category, a text the model keeps whole
NameCell(name) == StrCell(<<name>>)

\* str.replace("'", "''")
RECURSIVE EscapeQuotes(_)
EscapeQuotes(t) ==
    IF t = <<>> THEN <<>>
    ELSE (IF Head(t) = "'" THEN <<"'", "'">> ELSE <<Head(t)>>) \o EscapeQuotes(Tail(t))

\* rstrip("0") of a run of decimals
RECURSIVE StripZeros(_)
StripZeros(t) ==
    IF t # <<>> /\ t[Len(t)] = "0" THEN StripZeros(SubSeq(t, 1, Len(t) - 1)) ELSE t

\* f"{value:.6f}".rstrip("0").rstrip(".") of a float given in thousandths
FloatLiteral(n) ==
    LET a == IF n < 0 THEN 0 - n ELSE n
        decimals == StripZeros(Pad(NatText(a % FloatScale), 3) \o <<"0", "0", "0">>)
    IN  (IF n < 0 THEN <<"-">> ELSE <<>>) \o NatText(a \div FloatScale)
            \o (IF decimals = <<>> THEN <<>> ELSE <<".">> \o decimals)

sql_literal(cell) ==
    CASE cell.k = "none" -> <<"N", "U", "L", "L">>
      [] cell.k = "bool" -> IF cell.v THEN <<"1">> ELSE <<"0">>
      [] cell.k = "int" -> str(cell)
      [] cell.k = "num" -> FloatLiteral(cell.v)
      [] cell.k = "date" -> <<"'">> \o isoformat(cell.v) \o <<"'">>
      [] OTHER -> <<"N", "'">> \o EscapeQuotes(str(cell)) \o <<"'">>

Statement(op, table, values) == [op |-> op, table |-> table, values |-> values]

\* the INSERT of an InventoryRow
InventoryInsert(row) ==
    Statement("INSERT", "dbo.gem_inventory_items",
        << sql_literal(NameCell(row.source_sheet)),
           sql_literal(IntCell(row.source_row)),
           sql_literal(OptInt(row.gemstone_number)),
           sql_literal(OptStr(row.gemstone_number_text)),
           sql_literal(OptStr(row.gemstone_type)),
           sql_literal(OptStr(row.weight_pcs_raw)),
           sql_literal(OptStr(row.shape)),
           sql_literal(OptStr(row.price_per_ct_raw)),
           sql_literal(OptStr(row.price_per_piece_raw)),
           sql_literal(OptDate(row.buying_date)),
           sql_literal(OptStr(row.buying_date_raw)),
           sql_literal(OptNum(row.balance_pcs)),
           sql_literal(OptNum(row.balance_ct)),
           sql_literal(OptDate(row.use_date)),
           sql_literal(OptStr(row.use_date_raw)),
           sql_literal(OptStr(row.owner_name)),
           sql_literal(OptNum(row.parsed_weight_ct)),
           sql_literal(OptNum(row.parsed_quantity_pcs)),
           sql_literal(OptNum(row.parsed_price_per_ct)),
           sql_literal(OptNum(row.parsed_price_per_piece)) >>)

\* the INSERT of a UsageBatch under the identity explicit_id
BatchInsert(batch, explicit_id) ==
    Statement("INSERT", "dbo.gem_usage_batches",
        << sql_literal(IntCell(explicit_id)),
           sql_literal(NameCell(batch.source_sheet)),
           sql_literal(IntCell(batch.source_row)),
           sql_literal(NameCell(batch.product_category)),
           sql_literal(OptDate(batch.transaction_date)),
           sql_literal(OptStr(batch.transaction_date_raw)),
           sql_literal(OptStr(batch.requester_name)),
           sql_literal(OptStr(batch.product_code)),
           sql_literal(OptNum(batch.total_amount)) >>)

\* the INSERT of a UsageLine under the identity batch_id of its batch
LineInsert(line, batch_id) ==
    Statement("INSERT", "dbo.gem_usage_lines",
        << sql_literal(IntCell(batch_id)),
           sql_literal(IntCell(line.source_row)),
           sql_literal(OptInt(line.gemstone_number)),
           sql_literal(OptStr(line.gemstone_name)),
           sql_literal(OptNum(line.used_pcs)),
           sql_literal(OptNum(line.used_weight_ct)),
           sql_literal(OptStr(line.unit_price_raw)),
           sql_literal(OptNum(line.line_amount)),
           sql_literal(OptNum(line.balance_pcs_after)),
           sql_literal(OptNum(line.balance_ct_after)),
           sql_literal(OptStr(line.requester_name)) >>)

\* mutant: the command sets XACT_ABORT and opens no transaction
Preamble_NoTransaction == <<Statement("SET XACT_ABORT ON", "", <<>>)>>

\* the statements every command starts with
Preamble ==
    << Statement("SET XACT_ABORT ON", "", <<>>),
       Statement("BEGIN TRANSACTION", "", <<>>) >>

\* "if truncate_first: statements.extend([...])"
Deletes(truncate) ==
    IF truncate
    THEN << Statement("DELETE", "dbo.gem_usage_lines", <<>>),
            Statement("DELETE", "dbo.gem_usage_batches", <<>>),
            Statement("DELETE", "dbo.gem_inventory_items", <<>>) >>
    ELSE <<>>

\* "for row in inventory_rows: statements.append(...)"
InventoryInserts(irs) == [i \in 1..Len(irs) |-> InventoryInsert(irs[i])]

\* seed = 1_000_000 + (int(now.timestamp()) % 1_000_000) * 1000
Seed(unix) == 1000000 + (unix % 1000000) * 1000

\* the dict comprehension over the batches, later entries replacing earlier
\* ones of the same local id
RECURSIVE IdMapUpTo(_, _, _, _)
IdMapUpTo(ubs, n, truncate, unix) ==
    IF n = 0 THEN <<>>
    ELSE DictSet(IdMapUpTo(ubs, n - 1, truncate, unix), ubs[n].local_id,
                 IF truncate THEN ubs[n].local_id ELSE Seed(unix) + (n - 1))

\* mutant: the identities come from the clock in both modes
BatchIdMap_SeedAlways(ubs, truncate, unix) == IdMapUpTo(ubs, Len(ubs), FALSE, unix)

\* batch_id_map
BatchIdMap(ubs, truncate, unix) == IdMapUpTo(ubs, Len(ubs), truncate, unix)

\* "if usage_batches: ..."
BatchInserts(ubs, id_map) ==
    IF ubs = <<>> THEN <<>>
    ELSE <<Statement("SET IDENTITY_INSERT ON", "dbo.gem_usage_batches", <<>>)>>
            \o [i \in 1..Len(ubs) |-> BatchInsert(ubs[i], id_map[ubs[i].local_id])]
            \o <<Statement("SET IDENTITY_INSERT OFF", "dbo.gem_usage_batches", <<>>)>>

\* mutant: a line without a batch is inserted under the id it carries
RECURSIVE LineInserts_KeepUnmatched(_, _)
LineInserts_KeepUnmatched(uls, id_map) ==
    IF uls = <<>> THEN <<>>
    ELSE LET ref == Head(uls).local_batch_id
         IN  <<LineInsert(Head(uls), IF ref \in DOMAIN id_map THEN id_map[ref] ELSE ref)>>
                \o LineInserts_KeepUnmatched(Tail(uls), id_map)

\* "for line in usage_lines: ..." with its "continue"
RECURSIVE LineInserts(_, _)
LineInserts(uls, id_map) ==
    IF uls = <<>> THEN <<>>
    ELSE LET batch_id == DictGet(id_map, Head(uls).local_batch_id)
         IN  (IF IsNone(batch_id) THEN <<>> ELSE <<LineInsert(Head(uls), batch_id[1])>>)
                \o LineInserts(Tail(uls), id_map)

\* the statement every command ends with
Commit == <<Statement("COMMIT TRANSACTION", "", <<>>)>>

\* mutant: the lines are inserted before their batches
build_import_sql_LinesFirst(irs, ubs, uls, truncate, unix) ==
    LET batch_id_map == BatchIdMap(ubs, truncate, unix)
    IN  Preamble \o Deletes(truncate) \o InventoryInserts(irs)
            \o LineInserts(uls, batch_id_map) \o BatchInserts(ubs, batch_id_map)
            \o Commit

\* build_import_sql; unix is the clock it reads in append mode
build_import_sql(irs, ubs, uls, truncate, unix) ==
    LET batch_id_map == BatchIdMap(ubs, truncate, unix)
    IN  Preamble \o Deletes(truncate) \o InventoryInserts(irs)
            \o BatchInserts(ubs, batch_id_map) \o LineInserts(uls, batch_id_map)
            \o Commit

(***************************************************************************)
(* The execution of the command against the store (SqlRunner and the       *)
(* database).  XACT_ABORT ON makes a failing statement roll the open       *)
(* transaction back and end the command; without it the failing statement *)
(* alone is undone and the command goes on.                                *)
(***************************************************************************)
\* the relation a statement names, as a field of the store
Relation(table) ==
    CASE table = "dbo.gem_inventory_items" -> "gem_inventory_items"
      [] table = "dbo.gem_usage_batches" -> "gem_usage_batches"
      [] table = "dbo.gem_usage_lines" -> "gem_usage_lines"

\* the identities of the batches in the store (the first column)
StoredBatchIds(st) ==
    {st.gem_usage_batches[i][1] : i \in 1..Len(st.gem_usage_batches)}

\* an INSERT of a batch under an identity the relation already holds fails
KeyCollision(s, st) ==
    /\ s.op = "INSERT"
    /\ s.table = "dbo.gem_usage_batches"
    /\ s.values[1] \in StoredBatchIds(st)

\* the connection before the command: [store, open, xact_abort, ended, ok];
\* open is the store as it was at BEGIN TRANSACTION, None outside one
Connect(st) ==
    [store |-> st, open |-> None, xact_abort |-> FALSE, ended |-> FALSE, ok |-> TRUE]

\* a statement that succeeds
Succeed(db, s) ==
    CASE s.op = "SET XACT_ABORT ON" -> [db EXCEPT !.xact_abort = TRUE]
      [] s.op = "BEGIN TRANSACTION" -> [db EXCEPT !.open = Some(db.store)]
      [] s.op = "DELETE" -> [db EXCEPT !.store[Relation(s.table)] = <<>>]
      [] s.op = "INSERT" ->
            [db EXCEPT !.store[Relation(s.table)] = Append(@, s.values)]
      [] s.op = "COMMIT TRANSACTION" -> [db EXCEPT !.open = None]
      [] OTHER -> db

\* a statement that fails.  A DELETE or an INSERT fails by an error of the
\* statement; any other failure ends the connection.
Fail(db, s) ==
    IF s.op \in {"DELETE", "INSERT"} /\ ~db.xact_abort
    THEN [db EXCEPT !.ok = FALSE]
    ELSE [db EXCEPT !.store = IF NotNone(db.open) THEN db.open[1] ELSE db.store,
                    !.open = None, !.ended = TRUE, !.ok = FALSE]

\* the statements from position i on; statement fail_at fails (0: none does)
RECURSIVE ExecuteFrom(_, _, _, _)
ExecuteFrom(db, stmts, i, fail_at) ==
    IF i > Len(stmts) \/ db.ended
    THEN \* the connection is closed: an open transaction is rolled back
         [db EXCEPT !.store = IF NotNone(db.open) THEN db.open[1] ELSE db.store,
                    !.open = None]
    ELSE ExecuteFrom(IF i = fail_at \/ KeyCollision(stmts[i], db.store)
                     THEN Fail(db, stmts[i]) ELSE Succeed(db, stmts[i]),
                     stmts, i + 1, fail_at)

\* execute_with_sqlrunner(sql_text) on the store st
execute_with_sqlrunner(stmts, st, fail_at) == ExecuteFrom(Connect(st), stmts, 1, fail_at)

(***************************************************************************)
(* The explored imports: the assembled records of one workbook, imported   *)
(* at most MaxRuns times into a store that starts empty.  The batches      *)
(* carry the ids 1..n main() gave them; a line may reference any id up to  *)
(* MaxBatches + 1, so also a batch that is not supplied.                   *)
(***************************************************************************)
\* the clock at the time of a run: two consecutive seconds, and the second
\* 1_000_000 s after the first
Times == {1700000000, 1700000001, 1701000000}

InventorySample(i) ==
    InventoryRowOf(ReadInventoryRow(FullInventoryRow(i)), FirstRow + i - 1, InventorySheetName)

BatchSample(i) ==
    [ local_id |-> i,
      source_sheet |-> "Ring",
      source_row |-> FirstRow + 2 * (i - 1),
      product_category |-> "ring",
      transaction_date |-> IF i = 1 THEN Some(<<2024, 1, 5>>) ELSE None,
      transaction_date_raw |-> IF i = 1 THEN Some(<<"5", "/", "1", "/", "2", "4">>) ELSE None,
      requester_name |-> Some(<<"O", "'", "N">>),
      product_code |-> Some(<<"P", Digit(i)>>),
      total_amount |-> Some(1500 * i) ]

LineSample(j, ref) ==
    [ local_batch_id |-> ref,
      source_row |-> FirstRow + j,
      gemstone_number |-> Some(10 + j),
      gemstone_name |-> Some(<<"G", Digit(j)>>),
      used_pcs |-> Some(2000),
      used_weight_ct |-> Some(250 * j),
      unit_price_raw |-> None,
      line_amount |-> Some(100000),
      balance_pcs_after |-> None,
      balance_ct_after |-> Some(0 - 500),
      requester_name |-> None ]

\* no inventory record, or MaxInventoryRows of them
InventoryInputs == {[i \in 1..n |-> InventorySample(i)] : n \in {0, MaxInventoryRows}}
BatchInputs == {[i \in 1..n |-> BatchSample(i)] : n \in 0..MaxBatches}
\* the lines of nb batches: each refers to one of them or to a batch that
\* is not supplied (nb + 1)
LineInputs(nb) ==
    UNION {{[j \in 1..n |-> LineSample(j, refs[j])] : refs \in [1..n -> 1..(nb + 1)]} :
              n \in 0..MaxLines}

\* main() has assembled the records and calls build_import_sql
SqlInit ==
    /\ pc = "build"
    /\ UsageNotStarted
    /\ InventoryNotStarted
    /\ ScalarNotCalled
    /\ inventory_rows \in InventoryInputs
    /\ usage_batches \in BatchInputs
    /\ usage_lines \in LineInputs(Len(usage_batches))
    /\ truncate_first \in BOOLEAN
    /\ now \in Times
    /\ statements = <<>>
    /\ store = EmptyStore
    /\ history = <<>>

\* sql_text = build_import_sql(...)
BuildSql ==
    /\ pc = "build"
    /\ statements' = build_import_sql(inventory_rows, usage_batches, usage_lines,
                                      truncate_first, now)
    /\ pc' = "execute"
    /\ UNCHANGED <<usage_vars, usage_batches, usage_lines, inventory_vars, inventory_rows,
                   truncate_first, now, store, history, scalar_vars>>

\* execute_with_sqlrunner(sql_text): any one statement may fail, or none
ExecuteSql ==
    /\ pc = "execute"
    /\ \E fail_at \in 0..Len(statements) :
          LET db == execute_with_sqlrunner(statements, store, fail_at)
          IN  /\ store' = db.store
              /\ history' = Append(history,
                    [ truncate_first |-> truncate_first, now |-> now,
                      statements |-> statements, before |-> store, ok |-> db.ok ])
    /\ pc' = "ran"
    /\ UNCHANGED <<usage_vars, usage_batches, usage_lines, inventory_vars, inventory_rows,
                   truncate_first, now, statements, scalar_vars>>

\* the same workbook is imported again, later, in either mode
RunAgain ==
    /\ pc = "ran"
    /\ Len(history) < MaxRuns
    /\ truncate_first' \in BOOLEAN
    /\ now' \in {t \in Times : t > now}
    /\ statements' = <<>>
    /\ pc' = "build"
    /\ UNCHANGED <<usage_vars, usage_batches, usage_lines, inventory_vars, inventory_rows,
                   store, history, scalar_vars>>

SqlNext ==
    \/ BuildSql
    \/ ExecuteSql
    \/ RunAgain

SqlSpec == SqlInit /\ [][SqlNext]_vars

(***************************************************************************)
(* Claims about parse_usage_sheet                                          *)
(***************************************************************************)
\* the rows of the sheet being parsed that the loop has read, normalized
RowsRead == [k \in 1..Len(workbook[sheet_name]) |-> ReadRow(workbook[sheet_name][k])]
\* of the normalized rows R, the one that stands on sheet row n
RowAt(R, n) == R[n - FirstRow + 1]
\* parse_usage_sheet has just returned and main() has renamed nothing yet
JustReturned == pc = "remap" /\ bi = 1 /\ li = 1
\* a pass over a sheet is under way or has just returned
InSheet == pc = "rows" \/ JustReturned

\* the normalized row the loop read last
LastRow == ReadRow(workbook[sheet_name][Len(workbook[sheet_name])])
\* the normalized row that opened the open batch
OpeningRow == ReadRow(workbook[sheet_name][current[1].source_row - FirstRow + 1])

\* a step of the loop over the rows, and the row it handles
RowTaken == pc = "rows" /\ pc' = "rows" /\ row_idx' = row_idx + 1
TakenRow == ReadRow(workbook'[sheet_name][row_idx - FirstRow + 1])

\* the two header-repeat tests and the noise test, as the specification
\* words them
CustomerHeader(r) ==
    /\ r.requester_name \in {Some(CustomerLabelThai), Some(CustomerLabel)}
    /\ r.product_code = None
    /\ r.gemstone_name = None
ItemNameHeader(r) == r.gemstone_name = Some(ItemNameLabel)
LineContent(r) ==
    \E f \in {"gemstone_number", "gemstone_name", "used_pcs", "used_weight_ct",
              "unit_price_raw", "line_amount"} : r[f] # None
BatchMarker(r) ==
    \E f \in {"product_code", "total_amount", "transaction_date"} : r[f] # None
\* the row is neither a header repeat nor noise
Effective(r) ==
    ~CustomerHeader(r) /\ ~ItemNameHeader(r) /\ (LineContent(r) \/ BatchMarker(r))

\* C1: a row that passes the header-repeat filter and has a product code
\* starts a new batch: the open batch, if any, is appended to the output,
\* and a fresh batch is opened from this row with the next local id and the
\* row's product code, whatever else the row carries.
C1_CodeRowStartsBatch ==
    [][ (RowTaken /\ ~CustomerHeader(TakenRow) /\ ~ItemNameHeader(TakenRow)
            /\ TakenRow.product_code # None)
        => /\ batches' = IF current # None THEN Append(batches, current[1]) ELSE batches
           /\ current' # None
           /\ current'[1].local_id = next_local_id
           /\ current'[1].source_row = row_idx
           /\ current'[1].product_code = TakenRow.product_code
           /\ next_local_id' = next_local_id + 1 ]_vars

\* a row with a product code, a requester and a total has just closed the
\* batch of an earlier row and opened its own
C1_Witness ==
    /\ pc = "rows"
    /\ Len(batches) >= 1
    /\ current # None
    /\ current[1].source_row = row_idx - 1
    /\ batches[Len(batches)].source_row < row_idx - 1
    /\ LastRow.product_code # None
    /\ LastRow.requester_name # None
    /\ LastRow.total_amount # None

\* C2: every returned batch has a returned line, a product code or a total
\* amount, and every returned line references a returned batch.
C2_RetainedBatchesAndLines ==
    JustReturned =>
        /\ \A i \in 1..Len(filtered_batches) :
              \/ \E j \in 1..Len(filtered_lines) :
                    filtered_lines[j].local_batch_id = filtered_batches[i].local_id
              \/ filtered_batches[i].product_code # None
              \/ filtered_batches[i].total_amount # None
        /\ \A j \in 1..Len(filtered_lines) :
              \E i \in 1..Len(filtered_batches) :
                  filtered_batches[i].local_id = filtered_lines[j].local_batch_id

\* a pass that dropped a batch and returned another one with its lines
C2_Witness ==
    /\ JustReturned
    /\ Len(filtered_batches) < Len(batches)
    /\ Len(filtered_batches) >= 1
    /\ Len(filtered_lines) >= 1

\* the open batch stays the same batch across the step
SameOpenBatch ==
    current # None /\ current' # None /\ current'[1].local_id = current[1].local_id

\* C3: while a batch is open, a row without a product code changes the
\* batch's date, requester or product code only where the batch's field is
\* null and the row's is not, and then to the row's value; a non-null field
\* keeps its value.
C3_FirstNonNullWins ==
    [][ (RowTaken /\ current # None /\ TakenRow.product_code = None)
        => /\ SameOpenBatch
           /\ \A f \in {"transaction_date", "requester_name", "product_code"} :
                 current'[1][f] # current[1][f]
                    => /\ current[1][f] = None
                       /\ TakenRow[f] # None
                       /\ current'[1][f] = TakenRow[f] ]_vars

\* a continuation row with its own date and requester has been merged into
\* a batch that had both already
C3_Witness ==
    /\ pc = "rows"
    /\ current # None
    /\ current[1].source_row < row_idx - 1
    /\ Effective(LastRow)
    /\ LastRow.requester_name # None
    /\ LastRow.transaction_date # None
    /\ current[1].requester_name # None
    /\ current[1].requester_name # LastRow.requester_name
    /\ current[1].transaction_date # LastRow.transaction_date

\* the last sheet row of the rows R
LastRowOf(R) == FirstRow + Len(R) - 1
\* the rows after row n, up to row hi, that have a product code and pass the
\* header-repeat filter
CodeRowsAfter(R, n, hi) ==
    {m \in (n + 1)..hi :
        /\ RowAt(R, m).product_code # None
        /\ ~CustomerHeader(RowAt(R, m))
        /\ ~ItemNameHeader(RowAt(R, m))}
\* the last row of the batch opened on row n: the row before the next row
\* that starts a batch, or the last row read
SpanEnd(R, n) ==
    LET starts == CodeRowsAfter(R, n, LastRowOf(R))
    IN  IF starts = {} THEN LastRowOf(R)
        ELSE (CHOOSE m \in starts : \A m2 \in starts : m <= m2) - 1
\* the last non-null total amount among the effective rows lo..hi
RECURSIVE LastTotal(_, _, _)
LastTotal(R, lo, hi) ==
    IF hi < lo THEN None
    ELSE IF Effective(RowAt(R, hi)) /\ RowAt(R, hi).total_amount # None
         THEN RowAt(R, hi).total_amount
    ELSE LastTotal(R, lo, hi - 1)

\* C4: the total amount of a finalized batch is the last non-null total
\* amount among the row that opened it and the continuation rows merged into
\* it, null if none has one.
C4_TotalIsLastNonNull ==
    InSheet =>
        LET R == RowsRead
        IN  \A i \in 1..Len(batches) :
                batches[i].total_amount =
                    LastTotal(R, batches[i].source_row, SpanEnd(R, batches[i].source_row))

\* a finalized batch whose opening row had a total, replaced by a later
\* row's total and left alone by a last row without one
C4_Witness ==
    /\ InSheet
    /\ \E i \in 1..Len(batches) :
          LET b == batches[i]
              R == RowsRead
          IN  /\ RowAt(R, b.source_row).total_amount # None
              /\ b.total_amount # RowAt(R, b.source_row).total_amount
              /\ SpanEnd(R, b.source_row) >= b.source_row + 2
              /\ Effective(RowAt(R, SpanEnd(R, b.source_row)))
              /\ RowAt(R, SpanEnd(R, b.source_row)).total_amount = None

\* C5 as stated: once the total amount of the open batch is non-null, no
\* later continuation row changes it.
C5_TotalFirstNonNullWins ==
    [][ (RowTaken /\ SameOpenBatch /\ current[1].total_amount # None)
        => current'[1].total_amount = current[1].total_amount ]_vars

\* C5 amended: a continuation row (no product code, not a header repeat)
\* with a non-null total amount replaces the total amount of the open batch,
\* set or not, and one with a null total amount leaves it as it is.
C5_TotalLastNonNullWins ==
    [][ (RowTaken /\ current # None /\ TakenRow.product_code = None
            /\ ~CustomerHeader(TakenRow) /\ ~ItemNameHeader(TakenRow))
        => /\ SameOpenBatch
           /\ current'[1].total_amount =
                 IF TakenRow.total_amount # None THEN TakenRow.total_amount
                 ELSE current[1].total_amount ]_vars

\* the open batch had a total from its opening row and now carries the
\* total of the continuation row just read
C5_Witness ==
    /\ pc = "rows"
    /\ current # None
    /\ current[1].source_row < row_idx - 1
    /\ OpeningRow.total_amount # None
    /\ LastRow.total_amount # None
    /\ current[1].total_amount = LastRow.total_amount
    /\ current[1].total_amount # OpeningRow.total_amount

\* C6: a row whose requester is the "customer" label and whose product code
\* and item name are null changes neither the open batch, nor the output
\* batches, nor the lines, nor the id counter.
C6_CustomerHeaderSkipped ==
    [][ (RowTaken /\ CustomerHeader(TakenRow))
        => UNCHANGED <<current, batches, lines, next_local_id>> ]_vars

\* a row with the Thai label, a date, a total and a line amount has been
\* read while a batch was open
C6_Witness ==
    /\ pc = "rows"
    /\ current # None
    /\ current[1].source_row < row_idx - 1
    /\ LastRow.requester_name = Some(CustomerLabelThai)
    /\ CustomerHeader(LastRow)
    /\ LastRow.transaction_date # None
    /\ LastRow.total_amount # None
    /\ LastRow.line_amount # None

\* the batches the pass has opened so far
Opened == Len(batches) + (IF current # None THEN 1 ELSE 0)
\* the rows read that pass the header-repeat filter and have a product code
CodeRowsIn(R) == CodeRowsAfter(R, FirstRow - 1, LastRowOf(R))
EffectiveRowsIn(R) == {n \in FirstRow..LastRowOf(R) : Effective(RowAt(R, n))}
FirstEffectiveHasNoCode(R) ==
    LET eff == EffectiveRowsIn(R)
    IN  /\ eff # {}
        /\ RowAt(R, CHOOSE n \in eff : \A n2 \in eff : n <= n2).product_code = None
LinesOf(ls, id) == {j \in 1..Len(ls) : ls[j].local_batch_id = id}

\* C7: the batches opened are as many as the non-filtered rows with a
\* product code, plus one exactly when the first effective row has no
\* product code; and the rows [code A, item, item, code B] return two
\* batches, A with two lines and B with none, B kept for its product code.
C7_BatchCount ==
    /\ InSheet =>
          LET R == RowsRead
          IN  Opened = Cardinality(CodeRowsIn(R))
                          + (IF FirstEffectiveHasNoCode(R) THEN 1 ELSE 0)
    /\ (JustReturned
          /\ workbook[sheet_name] = <<CodeRow(3), ItemRow(4), ItemRow(5), CodeRow(6)>>)
       => /\ Len(filtered_batches) = 2
          /\ filtered_batches[1].product_code = ReadRow(CodeRow(3)).product_code
          /\ filtered_batches[2].product_code = ReadRow(CodeRow(6)).product_code
          /\ Cardinality(LinesOf(filtered_lines, filtered_batches[1].local_id)) = 2
          /\ Cardinality(LinesOf(filtered_lines, filtered_batches[2].local_id)) = 0
          /\ Len(filtered_lines) = 2

\* the pass over [code A, item, item, code B] has returned
C7_Witness ==
    /\ JustReturned
    /\ workbook[sheet_name] = <<CodeRow(3), ItemRow(4), ItemRow(5), CodeRow(6)>>
    /\ Len(filtered_batches) = 2

\* every batch of the pass, finalized or open
AllBatches ==
    {batches[i] : i \in 1..Len(batches)} \cup (IF current # None THEN {current[1]} ELSE {})

\* C8: every line references exactly one batch, the most recently opened
\* one at its row (no batch opened later than it up to the line's row); a
\* line on a row with a product code belongs to the batch opened on that row.
C8_LineBelongsToCurrentBatch ==
    InSheet =>
        \A j \in 1..Len(lines) :
            LET l == lines[j]
                owners == {b \in AllBatches : b.local_id = l.local_batch_id}
            IN  /\ Cardinality(owners) = 1
                /\ \A b \in owners :
                      /\ b.source_row <= l.source_row
                      /\ \A b2 \in AllBatches :
                            b2.source_row <= l.source_row => b2.source_row <= b.source_row
                      /\ RowAt(RowsRead, l.source_row).product_code # None
                            => b.source_row = l.source_row

\* a row with a product code and line content closed a batch that had lines
\* and its line went to the batch it opened
C8_Witness ==
    /\ pc = "rows"
    /\ Len(batches) >= 1
    /\ \E j \in 1..Len(lines) : lines[j].local_batch_id = batches[1].local_id
    /\ \E j \in 1..Len(lines) :
          /\ RowAt(RowsRead, lines[j].source_row).product_code # None
          /\ lines[j].source_row > batches[1].source_row
          /\ current # None
          /\ lines[j].local_batch_id = current[1].local_id

\* C9: a finalized batch is never changed by a later row of the sheet nor
\* by the end of the sheet, and is in the output exactly once.
C9_FinalizedIsFrozen ==
    [][ (pc = "rows")
        => /\ Len(batches') >= Len(batches)
           /\ \A i \in 1..Len(batches) : batches'[i] = batches[i]
           /\ \A i, j \in 1..Len(batches') :
                 batches'[i].local_id = batches'[j].local_id => i = j
           /\ current' # None
                 => \A i \in 1..Len(batches') : batches'[i].local_id # current'[1].local_id
       ]_vars

\* after a batch was finalized, a later row with a date and a requester has
\* been merged into the batch that followed it
C9_Witness ==
    /\ pc = "rows"
    /\ Len(batches) >= 1
    /\ current # None
    /\ current[1].source_row < row_idx - 1
    /\ Effective(LastRow)
    /\ LastRow.transaction_date # None
    /\ LastRow.requester_name # None
    /\ current[1].requester_name = LastRow.requester_name

(***************************************************************************)
(* Claims about the assembler loop of main()                               *)
(***************************************************************************)
SheetPos(name) ==
    CHOOSE i \in 1..Len(USAGE_SHEET_CATEGORY) : USAGE_SHEET_CATEGORY[i][1] = name

\* C10: the assembled batches carry the ids 1..N in their order, which is
\* the order of the sheets and, within a sheet, the order in which the pass
\* returned them; only sheets of the workbook contribute.
C10_GlobalIdsSequential ==
    /\ \A i \in 1..Len(usage_batches) : usage_batches[i].local_id = i
    /\ \A i, j \in 1..Len(usage_batches) :
          i < j => SheetPos(usage_batches[i].source_sheet)
                       <= SheetPos(usage_batches[j].source_sheet)
    /\ \A i \in 1..Len(usage_batches) : usage_batches[i].source_sheet \in sheetnames
    /\ (pc = "remap" /\ bi > Len(filtered_batches))
          => \A i \in 1..Len(filtered_batches) :
                usage_batches[Len(usage_batches) - Len(filtered_batches) + i]
                    = filtered_batches[i]

\* two sheets, not the first two of the list, gave three batches between
\* them, the second sheet after a sheet that is absent
C10_Witness ==
    /\ pc = "done"
    /\ Len(usage_batches) = 3
    /\ Cardinality(sheetnames) = 2
    /\ "Earrings" \notin sheetnames
    /\ usage_batches[1].source_sheet # usage_batches[3].source_sheet
    /\ SheetPos(usage_batches[3].source_sheet)
          > SheetPos(usage_batches[1].source_sheet) + 1

\* the batch reference a line of this sheet carried when parse_usage_sheet
\* emitted it, found by the line's row (a row emits at most one line)
PreRemapRef(srow) ==
    lines[CHOOSE j \in 1..Len(lines) : lines[j].source_row = srow].local_batch_id

\* an iteration of "for line in lines" of main()
LineRemapped == pc = "remap" /\ li' = li + 1

\* C11: an iteration of the loop over a sheet's lines appends exactly that
\* line, its batch reference replaced by the global id of the very batch of
\* this sheet that carried the line's local batch id; the lines assembled
\* before it share that global id exactly when they are lines of the same
\* sheet that referenced the same local batch.  No line is filtered.
C11_LinesFollowTheirBatch ==
    [][ LineRemapped =>
          LET l == filtered_lines[li]
              new == usage_lines'[Len(usage_lines')]
              g == new.local_batch_id
              first == Len(usage_lines) - (li - 1)
          IN  /\ Len(usage_lines') = Len(usage_lines) + 1
              /\ new = [l EXCEPT !.local_batch_id = g]
              /\ g \in 1..Len(usage_batches)
              /\ usage_batches[g].source_sheet = sheet_name
              /\ \E i \in 1..Len(batches) :
                    /\ batches[i].local_id = l.local_batch_id
                    /\ usage_batches[g] = [batches[i] EXCEPT !.local_id = g]
              /\ \A j \in 1..Len(usage_lines) :
                    usage_lines[j].local_batch_id = g
                        <=> /\ j > first
                            /\ PreRemapRef(usage_lines[j].source_row) = l.local_batch_id
      ]_vars

\* a line of a later sheet has been remapped to a global id that differs
\* from the local id it carried, after a line of another batch
C11_Witness ==
    /\ pc = "remap"
    /\ li > 1
    /\ Len(usage_lines) >= 2
    /\ LET n == Len(usage_lines)
       IN  /\ usage_lines[n].local_batch_id # PreRemapRef(usage_lines[n].source_row)
           /\ usage_lines[n].local_batch_id # usage_lines[1].local_batch_id

(***************************************************************************)
(* Claims about build_import_sql and the execution of its command          *)
(***************************************************************************)
\* the command has been built
Built == pc \in {"execute", "ran"}

IsInsertInto(s, table) == s.op = "INSERT" /\ s.table = table
IsDeleteFrom(s, table) == s.op = "DELETE" /\ s.table = table

\* the positions of the statements of a command that satisfy Test
Where(stmts, Test(_)) == {p \in 1..Len(stmts) : Test(stmts[p])}

\* the place of a statement in the order the command is to follow
Rank(s) ==
    CASE s.op = "SET XACT_ABORT ON" -> 1
      [] s.op = "BEGIN TRANSACTION" -> 2
      [] IsDeleteFrom(s, "dbo.gem_usage_lines") -> 3
      [] IsDeleteFrom(s, "dbo.gem_usage_batches") -> 4
      [] IsDeleteFrom(s, "dbo.gem_inventory_items") -> 5
      [] IsInsertInto(s, "dbo.gem_inventory_items") -> 6
      [] s.table = "dbo.gem_usage_batches" -> 7
      [] IsInsertInto(s, "dbo.gem_usage_lines") -> 8
      [] s.op = "COMMIT TRANSACTION" -> 9

\* C12: the command is SET XACT_ABORT ON, BEGIN TRANSACTION, the three
\* DELETEs (lines, batches, inventory; exactly when truncate_first), one
\* INSERT per inventory record, one INSERT per batch, the INSERTs of the
\* lines, COMMIT TRANSACTION, in this order; and every INSERT of a line
\* follows the INSERT of the batch whose identity it carries.
C12_StatementOrder ==
    Built =>
      LET S == statements
          Count(Test(_)) == Cardinality(Where(S, Test))
          deletes == IF truncate_first THEN 1 ELSE 0
      IN  /\ \A p, q \in 1..Len(S) : p < q => Rank(S[p]) <= Rank(S[q])
          /\ Where(S, LAMBDA s : s.op = "SET XACT_ABORT ON") = {1}
          /\ Where(S, LAMBDA s : s.op = "BEGIN TRANSACTION") = {2}
          /\ Where(S, LAMBDA s : s.op = "COMMIT TRANSACTION") = {Len(S)}
          /\ Count(LAMBDA s : IsDeleteFrom(s, "dbo.gem_usage_lines")) = deletes
          /\ Count(LAMBDA s : IsDeleteFrom(s, "dbo.gem_usage_batches")) = deletes
          /\ Count(LAMBDA s : IsDeleteFrom(s, "dbo.gem_inventory_items")) = deletes
          /\ Count(LAMBDA s : IsInsertInto(s, "dbo.gem_inventory_items"))
                = Len(inventory_rows)
          /\ Count(LAMBDA s : IsInsertInto(s, "dbo.gem_usage_batches"))
                = Len(usage_batches)
          /\ \A p \in Where(S, LAMBDA s : IsInsertInto(s, "dbo.gem_usage_lines")) :
                \E q \in 1..(p - 1) :
                    /\ IsInsertInto(S[q], "dbo.gem_usage_batches")
                    /\ S[q].values[1] = S[p].values[1]

\* a command of either mode with an inventory record, two batches and a
\* line of each batch, the second batch's line first
C12_Witness ==
    /\ Built
    /\ Len(history) = 1
    /\ truncate_first # history[1].truncate_first
    /\ Len(inventory_rows) >= 1
    /\ Len(usage_batches) = 2
    /\ Len(usage_lines) = 2
    /\ usage_lines[1].local_batch_id = 2
    /\ usage_lines[2].local_batch_id = 1
    /\ Len(statements) = Len(inventory_rows) + (IF truncate_first THEN 12 ELSE 9)

\* the run of the import that ended last
LastRun == history[Len(history)]

\* C13: every DELETE and INSERT of the command lies after SET XACT_ABORT ON
\* and the single BEGIN TRANSACTION and before the single, final COMMIT
\* TRANSACTION; a run in which a statement failed leaves the store as it
\* was before the run, and a run in which none failed leaves every row of
\* the command in the store.
C13_AllOrNothing ==
    /\ Built =>
          LET S == statements
              begins == Where(S, LAMBDA s : s.op = "BEGIN TRANSACTION")
              commits == Where(S, LAMBDA s : s.op = "COMMIT TRANSACTION")
              aborts == Where(S, LAMBDA s : s.op = "SET XACT_ABORT ON")
          IN  /\ Cardinality(begins) = 1
              /\ commits = {Len(S)}
              /\ aborts # {}
              /\ \A p \in Where(S, LAMBDA s : s.op \in {"DELETE", "INSERT"}) :
                    /\ \E a \in aborts : a < p
                    /\ \A b \in begins : b < p
                    /\ p < Len(S)
    /\ pc = "ran" =>
          IF LastRun.ok
          THEN \A p \in Where(statements, LAMBDA s : s.op = "INSERT") :
                  LET relation == store[Relation(statements[p].table)]
                  IN  \E i \in 1..Len(relation) : relation[i] = statements[p].values
          ELSE store = LastRun.before

\* a clear-first run failed against a store that held rows of all three
\* relations, and the store holds them again
C13_Witness ==
    /\ pc = "ran"
    /\ ~LastRun.ok
    /\ truncate_first
    /\ LastRun.before.gem_inventory_items # <<>>
    /\ LastRun.before.gem_usage_batches # <<>>
    /\ LastRun.before.gem_usage_lines # <<>>
    /\ store = LastRun.before

\* the INSERTs of batches of a command, in its order
BatchInsertsOf(stmts) ==
    SelectSeq(stmts, LAMBDA s : IsInsertInto(s, "dbo.gem_usage_batches"))

\* C14: in clear-first mode every batch is inserted under its own id; the
\* command built for the same records at another time and against another
\* store is the same command; and a second execution of it after a first
\* one that succeeded leaves the store with the rows the first one left.
C14_ClearFirstIsIdempotent ==
    /\ (Built /\ truncate_first) =>
          /\ Len(BatchInsertsOf(statements)) = Len(usage_batches)
          /\ \A i \in 1..Len(usage_batches) :
                BatchInsertsOf(statements)[i].values[1]
                    = NatText(usage_batches[i].local_id)
          /\ \A k \in 1..Len(history) :
                history[k].truncate_first => history[k].statements = statements
    /\ (pc = "ran" /\ Len(history) >= 2) =>
          LET first == history[Len(history) - 1]
          IN  (first.truncate_first /\ first.ok /\ LastRun.truncate_first)
                  => store = LastRun.before

\* the records were imported twice in clear-first mode at different times,
\* both runs without a failure, with batches and lines to insert
C14_Witness ==
    /\ pc = "ran"
    /\ Len(history) = 2
    /\ history[1].truncate_first /\ history[1].ok
    /\ history[2].truncate_first /\ history[2].ok
    /\ history[1].now # history[2].now
    /\ Len(usage_batches) = 2
    /\ store.gem_usage_lines # <<>>
    /\ store.gem_inventory_items # <<>>
    /\ store = history[2].before

\* the identities a command assigns to its batches
AssignedIds(stmts) ==
    {BatchInsertsOf(stmts)[i].values[1] : i \in 1..Len(BatchInsertsOf(stmts))}

\* C15: in append mode the identities seed + index given to the batches of
\* a run are pairwise distinct, and none of them is an identity given by an
\* earlier append run made at another time or by an earlier clear-first
\* run.
C15_AppendIdsNeverCollide ==
    (Built /\ ~truncate_first) =>
        /\ Cardinality(AssignedIds(statements)) = Len(usage_batches)
        /\ \A k \in 1..Len(history) :
              (pc = "execute" /\ (history[k].truncate_first \/ history[k].now # now))
                  => AssignedIds(statements) \cap AssignedIds(history[k].statements) = {}

\* the lines given to build_import_sql whose batch is among the batches
MatchedLines ==
    SelectSeq(usage_lines,
        LAMBDA l : \E i \in 1..Len(usage_batches) :
                        usage_batches[i].local_id = l.local_batch_id)

\* the INSERTs of lines of a command, in its order
LineInsertsOf(stmts) ==
    SelectSeq(stmts, LAMBDA s : IsInsertInto(s, "dbo.gem_usage_lines"))

\* C16: the command holds one INSERT per line whose batch is supplied, in
\* the order of the lines, and none for a line whose batch is not; it is
\* the command built for the input without the lines of the second kind,
\* and it ends with COMMIT TRANSACTION.
C16_UnmatchedLinesSkipped ==
    Built =>
        /\ Len(LineInsertsOf(statements)) = Len(MatchedLines)
        /\ \A i \in 1..Len(MatchedLines) :
              LineInsertsOf(statements)[i].values[2]
                  = NatText(MatchedLines[i].source_row)
        /\ statements = build_import_sql(inventory_rows, usage_batches, MatchedLines,
                                         truncate_first, now)
        /\ statements[Len(statements)].op = "COMMIT TRANSACTION"

\* a line whose batch is not supplied stands before a line whose batch is,
\* and the command inserts the second line only
C16_Witness ==
    /\ Built
    /\ Len(usage_batches) >= 1
    /\ Len(usage_lines) = 2
    /\ usage_lines[1].local_batch_id > Len(usage_batches)
    /\ usage_lines[2].local_batch_id <= Len(usage_batches)
    /\ Len(LineInsertsOf(statements)) = 1
    /\ LineInsertsOf(statements)[1].values[2] = NatText(usage_lines[2].source_row)


(***************************************************************************)
(* Claims about parse_inventory_sheet.                                     *)
(***************************************************************************)
\* the fields of an InventoryRow that hold what its eleven cells held
HasSourceField(rec) ==
    \/ ~IsNone(rec.gemstone_number)
    \/ ~IsNone(rec.gemstone_number_text)
    \/ ~IsNone(rec.gemstone_type)
    \/ ~IsNone(rec.weight_pcs_raw)
    \/ ~IsNone(rec.shape)
    \/ ~IsNone(rec.price_per_ct_raw)
    \/ ~IsNone(rec.price_per_piece_raw)
    \/ ~IsNone(rec.buying_date)
    \/ ~IsNone(rec.buying_date_raw)
    \/ ~IsNone(rec.balance_pcs)
    \/ ~IsNone(rec.balance_ct)
    \/ ~IsNone(rec.use_date)
    \/ ~IsNone(rec.use_date_raw)
    \/ ~IsNone(rec.owner_name)

\* C17: every InventoryRow in the list of parse_inventory_sheet has a
\* non-null field among those read from its eleven source columns.
C17_RecordHasSourceField ==
    \A i \in 1..Len(rows) : HasSourceField(rows[i])


\* a cell that holds a value which is neither blank nor a placeholder
HoldsValue(cell) ==
    /\ cell.k # "none"
    /\ cell.k = "str" =>
          strip(cell.v) \notin {<<>>, <<"-">>, <<"-", "-">>,
                                <<"#", "V", "A", "L", "U", "E", "!">>}

\* the rows of the sheet read so far in which some cell holds a value
RowsHoldingValue ==
    {FirstRow + i - 1 : i \in {j \in 1..Len(inventory_sheet) :
                                  \E c \in 1..11 : HoldsValue(inventory_sheet[j][c])}}

\* C18: parse_inventory_sheet has one record for each row read so far in
\* which a cell holds a value that is neither blank nor a placeholder, none
\* for the other rows, and the records are in increasing source_row order.
C18_OneRecordPerNonBlankRow ==
    /\ {rows[i].source_row : i \in 1..Len(rows)} = RowsHoldingValue
    /\ \A i, j \in 1..Len(rows) : i < j => rows[i].source_row < rows[j].source_row


(***************************************************************************)
(* The scalar normalizers called on one value: the explored values are the *)
(* texts of at most MaxTextLen characters over TextChars, texts the sheets *)
(* hold (placeholders, dates, numbers with a suffix) and the values that   *)
(* are not text.                                                           *)
(***************************************************************************)
TextChars == {"-", " ", "1", ".", "a"}

RECURSIVE Texts(_)
Texts(n) ==
    IF n = 0 THEN {<<>>}
    ELSE Texts(n - 1) \cup {Append(t, c) : t \in {u \in Texts(n - 1) : Len(u) = n - 1},
                                           c \in TextChars}

SheetTexts ==
    { <<"#", "V", "A", "L", "U", "E", "!">>,
      <<" ", "#", "V", "A", "L", "U", "E", "!", " ">>,
      <<"c", "u", "s", "t", "o", "m", "e", "r">>,
      <<" ", " ", "-", "-", " ", " ">>,
      <<"0", "5", "/", "0", "2", "/", "2", "4">>,
      <<"2", "0", "2", "4", "-", "0", "2", "-", "0", "5">>,
      <<"3", "1", "/", "0", "2", "/", "2", "0", "2", "4">>,
      <<"1", "2", "/", "3", "1", "/", "2", "0", "2", "4">>,
      <<"1", ",", "2", "3", "4", ".", "5", "0", " ", "n", "e", "t">>,
      <<"a", "b", "c">> }

\* the parts the weight/quantity texts are made of
WeightParts ==
    {<<"2">>, <<"1", ".", "5">>, <<"C", "t">>, <<"p", "c", "s">>, <<"/">>, <<" ">>, <<"-">>}

RECURSIVE PartTexts(_)
PartTexts(n) ==
    IF n = 0 THEN {<<>>}
    ELSE LET less == PartTexts(n - 1)
         IN  less \cup {t \o p : t \in less, p \in WeightParts}

\* weight/quantity texts the sheets hold besides
WeightTexts ==
    { <<"2", "0", "0", ".", "-", "/", "p", "c">>,
      <<"1", "p", "c", ".">>,
      <<"3", " ", "P", "i", "e", "c", "e", "s">>,
      <<"p", "i", "e", "c", "e", " ", "3">>,
      <<"1", ",", "2", "3", "4">> }

ScalarInputs ==
    {StrCell(t) : t \in Texts(MaxTextLen) \cup SheetTexts \cup PartTexts(MaxParts)
                            \cup WeightTexts}
        \cup {EmptyCell, IntCell(5), IntCell(0 - 5), NumCell(1500),
              [k |-> "bool", v |-> TRUE], DateCell(<<2024, 2, 5>>)}

\* before the call: the value is chosen
ScalarInit ==
    /\ pc = "scalar"
    /\ UsageNotStarted
    /\ usage_batches = <<>>
    /\ usage_lines = <<>>
    /\ InventoryNotStarted
    /\ inventory_rows = <<>>
    /\ SqlNotStarted
    /\ input_value \in ScalarInputs
    /\ returned = None

\* normalize_text(value)
CallNormalizeText ==
    /\ pc = "scalar"
    /\ returned' = Some(normalize_text(input_value))
    /\ pc' = "normalize_text"
    /\ UNCHANGED <<usage_vars, usage_batches, usage_lines, inventory_vars,
                   inventory_rows, sql_vars, input_value>>

\* parse_float(value)
CallParseFloat ==
    /\ pc = "scalar"
    /\ returned' = Some(parse_float(input_value))
    /\ pc' = "parse_float"
    /\ UNCHANGED <<usage_vars, usage_batches, usage_lines, inventory_vars,
                   inventory_rows, sql_vars, input_value>>

\* parse_date(value)
CallParseDate ==
    /\ pc = "scalar"
    /\ returned' = Some(parse_date(input_value))
    /\ pc' = "parse_date"
    /\ UNCHANGED <<usage_vars, usage_batches, usage_lines, inventory_vars,
                   inventory_rows, sql_vars, input_value>>

\* parse_weight_and_pcs(raw), raw a text or None
CallParseWeightAndPcs ==
    /\ pc = "scalar"
    /\ input_value.k \in {"none", "str"}
    /\ returned' = Some(parse_weight_and_pcs(IF input_value.k = "none" THEN None
                                              ELSE Some(input_value.v)))
    /\ pc' = "parse_weight_and_pcs"
    /\ UNCHANGED <<usage_vars, usage_batches, usage_lines, inventory_vars,
                   inventory_rows, sql_vars, input_value>>

ScalarNext ==
    \/ CallNormalizeText
    \/ CallParseFloat
    \/ CallParseDate
    \/ CallParseWeightAndPcs

ScalarSpec == ScalarInit /\ [][ScalarNext]_vars


(***************************************************************************)
(* Claims about the scalar normalizers.                                    *)
(***************************************************************************)
\* the text the normalizer was called on, trimmed
CalledOnText == input_value.k = "str"
TrimmedInput == strip(input_value.v)

HasDash(t) == \E i \in 1..Len(t) : t[i] = "-"
HasDigit(t) == \E i \in 1..Len(t) : IsDigit(t[i])

\* C19 as stated: for every text that contains "-" or "--", normalize_text
\* returns null and parse_float returns null.
C19_DashTextIsNull ==
    (pc \in {"normalize_text", "parse_float"} /\ CalledOnText
        /\ HasDash(input_value.v))
        => returned = Some(None)

\* C19: for a text that after trimming is "-", normalize_text and
\* parse_float return null; for a text that after trimming is "--",
\* parse_float returns null and normalize_text returns "--"; for any other
\* text with a dash, normalize_text returns the trimmed text, and
\* parse_float returns a number exactly when the text has a digit.
C19_PlaceholderIsNull ==
    (CalledOnText /\ HasDash(input_value.v)) =>
        /\ pc = "normalize_text" =>
              returned = Some(IF TrimmedInput = <<"-">> THEN None
                              ELSE Some(TrimmedInput))
        /\ pc = "parse_float" =>
              IF TrimmedInput \in {<<"-">>, <<"-", "-">>}
              THEN returned = Some(None)
              ELSE NotNone(returned[1]) <=> HasDigit(TrimmedInput)

\* normalize_text was called on a single dash between spaces and returned
\* null
C19_Witness ==
    /\ pc = "normalize_text"
    /\ CalledOnText
    /\ TrimmedInput = <<"-">>
    /\ input_value.v # <<"-">>
    /\ returned = Some(None)


DatePlaceholders == {<<"-">>, <<"-", "-">>, <<"#", "V", "A", "L", "U", "E", "!">>}

\* the text matches one of the six layouts
MatchesLayout(t) == \E i \in 1..Len(formats) : NotNone(strptime(t, formats[i]))

\* C20 as stated: a text that matches no layout gives a null date with the
\* trimmed text, but a text that is a placeholder ("-", "--", "#VALUE!")
\* gives a null date and a null raw text.
C20_PlaceholderRawIsNull ==
    (pc = "parse_date" /\ CalledOnText) =>
        IF TrimmedInput \in DatePlaceholders
        THEN returned = Some(<<None, None>>)
        ELSE ~MatchesLayout(TrimmedInput) /\ TrimmedInput # <<>>
                => returned = Some(<<None, Some(TrimmedInput)>>)

\* C20: parse_date returns a pair for every value.  For a text that after
\* trimming is empty both members are null; for every other text the raw
\* member is the trimmed text, placeholders included, and the date is null
\* exactly when the text is a placeholder or matches none of the six
\* layouts.
C20_RawTextKept ==
    pc = "parse_date" =>
        /\ NotNone(returned)
        /\ Len(returned[1]) = 2
        /\ CalledOnText =>
              IF TrimmedInput = <<>> THEN returned = Some(<<None, None>>)
              ELSE /\ returned[1][2] = Some(TrimmedInput)
                   /\ IsNone(returned[1][1])
                        <=> (TrimmedInput \in DatePlaceholders
                                \/ ~MatchesLayout(TrimmedInput))

\* parse_date was called on the error literal between spaces and returned a
\* null date with the literal as raw text
C20_Witness ==
    /\ pc = "parse_date"
    /\ CalledOnText
    /\ TrimmedInput = <<"#", "V", "A", "L", "U", "E", "!">>
    /\ input_value.v # TrimmedInput
    /\ returned = Some(<<None, Some(TrimmedInput)>>)


\* the text is a number as the three patterns take it: an optional minus
\* sign, digits, and optionally a point and digits
IsPlainNumber(u) ==
    LET body == IF u # <<>> /\ u[1] = "-" THEN Tail(u) ELSE u
        parts == Split(body, ".")
    IN  Len(parts) \in {1, 2} /\ \A k \in 1..Len(parts) : AllDigits(parts[k])

\* of a set of <<start, end>> pairs, the one that starts leftmost and, of
\* those, ends last
LeftmostLongest(M) ==
    CHOOSE m \in M : \A n \in M : m[1] < n[1] \/ (m[1] = n[1] /\ m[2] >= n[2])

\* the number that stands before one of the markers, whitespace between
\* them or none: the leftmost one, <<>> when there is none
NumberBeforeMarker(t, markers) ==
    LET M == {m \in (1..Len(t)) \X (1..Len(t)) :
                /\ m[1] <= m[2]
                /\ IsPlainNumber(SubSeq(t, m[1], m[2]))
                /\ \E s \in m[2]..Len(t) :
                      /\ \A k \in (m[2] + 1)..s : IsSpace(t[k])
                      /\ \E w \in markers : WordAt(t, s + 1, w)}
    IN  IF M = {} THEN <<>>
        ELSE SubSeq(t, LeftmostLongest(M)[1], LeftmostLongest(M)[2])

\* the number that stands after a slash, whitespace between them or none:
\* the one after the leftmost such slash, <<>> when there is none
NumberAfterSlash(t) ==
    LET M == {m \in (1..Len(t)) \X (1..Len(t)) :
                /\ m[1] <= m[2]
                /\ IsPlainNumber(SubSeq(t, m[1], m[2]))
                /\ \E i \in 1..(m[1] - 1) :
                      /\ t[i] = "/"
                      /\ \A k \in (i + 1)..(m[1] - 1) : IsSpace(t[k])}
    IN  IF M = {} THEN <<>>
        ELSE SubSeq(t, LeftmostLongest(M)[1], LeftmostLongest(M)[2])

\* the float of a number text, None for <<>>
NumberOf(u) == IF u = <<>> THEN None ELSE parse_float(StrCell(u))

\* C21: for every text, the weight parse_weight_and_pcs returns is the
\* number before a carat marker and the quantity is the number before a
\* piece marker, or, when no piece marker has one, the number after a
\* slash; when these give neither a weight nor a quantity, the first number
\* of the whole text is the quantity if the text contains "pc" and the
\* weight otherwise, and the other value is null.
C21_WeightAndPcsPrecedence ==
    (pc = "parse_weight_and_pcs" /\ CalledOnText /\ input_value.v # <<>>) =>
        LET low == lower(input_value.v)
            weight == NumberOf(NumberBeforeMarker(low, {<<"c", "t">>}))
            pieces == NumberOf(NumberBeforeMarker(low,
                          {<<"p", "c">>, <<"p", "i", "e", "c", "e">>}))
            quantity == IF NotNone(pieces) THEN pieces
                        ELSE NumberOf(NumberAfterSlash(low))
            whole == parse_float(StrCell(low))
        IN  IF NotNone(weight) \/ NotNone(quantity)
            THEN returned = Some(<<weight, quantity>>)
            ELSE IF Contains(low, <<"p", "c">>)
                 THEN returned = Some(<<None, whole>>)
                 ELSE returned = Some(<<whole, None>>)

\* a text with a number before a piece marker and another after a slash,
\* and no carat marker: the quantity is the first number
C21_Witness ==
    /\ pc = "parse_weight_and_pcs"
    /\ input_value = StrCell(<<"2", "p", "c", "s", "/", "1", ".", "5">>)
    /\ returned = Some(<<None, Some(2000)>>)


(***************************************************************************)
(* Claims about the local ids and the rows of parse_usage_sheet.           *)
(***************************************************************************)
\* C22 as stated: the batches parse_usage_sheet returns for a sheet carry
\* the local ids 1..n, n the number of returned batches.
C22_ReturnedIdsAreOneToN ==
    JustReturned =>
        \A i \in 1..Len(filtered_batches) : filtered_batches[i].local_id = i

\* C22: on every sheet the batches of the pass carry the local ids 1, 2, ...
\* in the order they were opened, whatever the sheets before held; the
\* returned batches are among them, in that order, so their local ids are
\* distinct and increasing, and an id is missing exactly where the post-pass
\* dropped a batch.
C22_LocalIdsIncreaseFromOne ==
    InSheet =>
        /\ \A i \in 1..Len(batches) : batches[i].local_id = i
        /\ NotNone(current) => current[1].local_id = Len(batches) + 1
        /\ JustReturned =>
              /\ \A i \in 1..Len(filtered_batches) :
                    /\ filtered_batches[i].local_id \in 1..Len(batches)
                    /\ filtered_batches[i] = batches[filtered_batches[i].local_id]
              /\ \A i, j \in 1..Len(filtered_batches) :
                    i < j => filtered_batches[i].local_id < filtered_batches[j].local_id
              /\ \A i \in 1..Len(batches) :
                    (\E k \in 1..Len(filtered_batches) : filtered_batches[k].local_id = i)
                        <=> KeepBatch(batches[i], lines)

\* a row with a date only opened batch 1, the next row has a product code:
\* the post-pass dropped batch 1 and the one returned batch carries id 2
C22_Witness ==
    /\ JustReturned
    /\ Len(batches) = 2
    /\ ~KeepBatch(batches[1], lines)
    /\ Len(filtered_batches) = 1
    /\ filtered_batches[1].local_id = 2


\* the step opens a batch: the row is neither a header repeat nor noise and
\* either no batch is open or the row has a product code
OpensBatch == Effective(TakenRow) /\ (current = None \/ TakenRow.product_code # None)

\* C23: a non-filtered row with line content or a batch marker read while no
\* batch is open opens a batch with the row's source row, date, requester,
\* product code and total amount and with the next local id; the counter
\* advances by one on every row that opens a batch and on no other row, and
\* the id given is larger than the id of every batch opened before.
C23_OpenWithNextId ==
    [][ RowTaken =>
          /\ (current = None /\ Effective(TakenRow)) =>
                current' = Some([ local_id |-> next_local_id,
                                  source_sheet |-> sheet_name,
                                  source_row |-> row_idx,
                                  product_category |-> category,
                                  transaction_date |-> TakenRow.transaction_date,
                                  transaction_date_raw |-> TakenRow.transaction_date_raw,
                                  requester_name |-> TakenRow.requester_name,
                                  product_code |-> TakenRow.product_code,
                                  total_amount |-> TakenRow.total_amount ])
          /\ OpensBatch =>
                /\ next_local_id' = next_local_id + 1
                /\ current' # None
                /\ current'[1].local_id = next_local_id
                /\ \A i \in 1..Len(batches') : batches'[i].local_id < next_local_id
          /\ ~OpensBatch => next_local_id' = next_local_id ]_vars

\* the first row was noise and left the counter alone; the second row, with
\* line content and no product code, opened batch 1 while none was open
C23_Witness ==
    /\ pc = "rows"
    /\ row_idx = FirstRow + 2
    /\ ~Effective(ReadRow(workbook[sheet_name][1]))
    /\ LineContent(LastRow)
    /\ LastRow.product_code = None
    /\ current # None
    /\ current[1].source_row = FirstRow + 1
    /\ current[1].local_id = 1
    /\ next_local_id = 2


\* the row is no header repeat and has neither line content nor a batch
\* marker
Noise(r) ==
    ~CustomerHeader(r) /\ ~ItemNameHeader(r) /\ ~LineContent(r) /\ ~BatchMarker(r)

\* C24: a row that passes the header-repeat filter and has neither line
\* content nor a batch marker leaves the open batch, the output batches, the
\* lines and the id counter as they are, whatever else it carries.
C24_NoiseRowSkipped ==
    [][ (RowTaken /\ Noise(TakenRow))
        => UNCHANGED <<current, batches, lines, next_local_id>> ]_vars

\* a row with a requester name, a date text that is no date and a balance,
\* and nothing else, has been read while a batch without requester was open
C24_Witness ==
    /\ pc = "rows"
    /\ current # None
    /\ current[1].source_row < row_idx - 1
    /\ current[1].requester_name = None
    /\ Noise(LastRow)
    /\ LastRow.requester_name # None
    /\ LastRow.transaction_date_raw # None
    /\ LastRow.balance_pcs_after # None \/ LastRow.balance_ct_after # None


\* C25: when parse_usage_sheet returns, the returned lines are the lines
\* emitted during the pass, every one of them refers to a returned batch,
\* and no line refers to a batch the post-pass dropped.
C25_PostPassKeepsLines ==
    JustReturned =>
        /\ filtered_lines = lines
        /\ \A j \in 1..Len(lines) :
              \E i \in 1..Len(filtered_batches) :
                 filtered_batches[i].local_id = lines[j].local_batch_id
        /\ \A i \in 1..Len(batches) :
              ~KeepBatch(batches[i], lines) => LinesOf(lines, batches[i].local_id) = {}

\* the post-pass dropped a batch of a pass that emitted a line, and the line
\* was returned
C25_Witness ==
    /\ JustReturned
    /\ Len(filtered_batches) < Len(batches)
    /\ lines # <<>>
    /\ filtered_lines = lines


\* C26: every step of the row loop on a row that is neither a header repeat
\* nor noise ends with a batch open, and a batch once open stays open until
\* the end of the sheet; such a row emits exactly one line, for the open
\* batch and with its own source row, when it has line content and none
\* otherwise, and a filtered row emits none; the source rows of the lines
\* and of the batches increase strictly, with at most one line per row.
C26_OneLinePerContentRow ==
    [][ RowTaken =>
          /\ Effective(TakenRow) => current' # None
          /\ current # None => current' # None
          /\ IF Effective(TakenRow) /\ LineContent(TakenRow)
             THEN /\ Len(lines') = Len(lines) + 1
                  /\ SubSeq(lines', 1, Len(lines)) = lines
                  /\ lines'[Len(lines')].source_row = row_idx
                  /\ lines'[Len(lines')].local_batch_id = current'[1].local_id
             ELSE lines' = lines
          /\ \A i, j \in 1..Len(lines') :
                i < j => lines'[i].source_row < lines'[j].source_row
          /\ \A i, j \in 1..Len(batches') :
                i < j => batches'[i].source_row < batches'[j].source_row
          /\ current' # None =>
                \A i \in 1..Len(batches') :
                   batches'[i].source_row < current'[1].source_row ]_vars

\* a row with line content and no batch marker was read while no batch was
\* open: it opened a batch and emitted its line
C26_Witness ==
    /\ pc = "rows"
    /\ row_idx = FirstRow + 1
    /\ LineContent(LastRow)
    /\ ~BatchMarker(LastRow)
    /\ Effective(LastRow)
    /\ current # None
    /\ Len(lines) = 1
    /\ lines[1].source_row = FirstRow
    /\ lines[1].local_batch_id = current[1].local_id


\* the parse of the sheet returns on this step
SheetReturns == pc = "rows" /\ pc' = "remap"

\* C27: the open batch has the product code of the row that opened it: a
\* step of the row loop that keeps the open batch keeps its product code,
\* also on a row with a product code, and a step that opens a batch gives it
\* the product code of the row; a finalized batch keeps its fields; so a
\* returned batch has a product code exactly when the row at its source row
\* has one, and it is that one.
C27_ProductCodeFixedAtOpening ==
    [][ /\ RowTaken =>
              /\ current' # None =>
                    IF current # None /\ current'[1].local_id = current[1].local_id
                    THEN /\ current'[1].product_code = current[1].product_code
                         /\ current'[1].source_row = current[1].source_row
                         /\ TakenRow.product_code # None => ~Effective(TakenRow)
                    ELSE /\ current'[1].product_code = TakenRow.product_code
                         /\ current'[1].source_row = row_idx
              /\ batches' = batches \/ (current # None /\ batches' = Append(batches, current[1]))
        /\ SheetReturns =>
              \A i \in 1..Len(filtered_batches') :
                 filtered_batches'[i].product_code
                    = ReadRow(workbook[sheet_name]
                                [filtered_batches'[i].source_row - FirstRow + 1]).product_code
      ]_vars

\* a batch opened by a row without product code, with a line, was returned
\* without product code, and the next batch was opened by a row with one
C27_Witness ==
    /\ JustReturned
    /\ Len(filtered_batches) = 2
    /\ filtered_batches[1].product_code = None
    /\ LinesOf(filtered_lines, filtered_batches[1].local_id) # {}
    /\ filtered_batches[2].product_code # None
    /\ filtered_batches[2].source_row = filtered_batches[1].source_row + 1

=============================================================================
